---------------------------- MODULE Spec2Model ----------------------------
(***************************************************************************)
(* Label renderer of chay_story_assistant: the text-layout engine of       *)
(* render.py (wrap_lines, fit_text, fit_text_in_box, fit_text_above_line)   *)
(* and the bot around it (bot.py startup, handlers.py uploads).            *)
(*                                                                         *)
(* Texts are sequences of one-character strings.  Widths are measured in   *)
(* glyph units times the font size (pdfmetrics.stringWidth is additive and *)
(* linear in the size).  Vertical coordinates are kept in twentieths of a  *)
(* point, so that the line heights 1.0, 1.05, 1.15 and 1.2 of the program   *)
(* are the integers 20, 21, 23 and 24.                                     *)
(***************************************************************************)
EXTENDS Integers, Sequences, FiniteSets, TLC

VARIABLES
    text,       \* layout engine: the text handed to the wrapper / fitters
    call,       \* layout engine: the last call, its arguments and its result
    face,       \* the font face's ascent and descent per unit of size (twentieths)
    pc,         \* bot.py main(): position of the startup sequence
    files,      \* the font and background files present on disk
    token,      \* whether BOT_TOKEN is set
    fonts,      \* the Fonts registered at startup: weight -> file registered
    allowed,    \* access.is_allowed(user) for the conversation's user
    fsm,        \* the user's FSM state (aiogram FSMContext)
    event,      \* the update being handled and what its handler did with it
    refused,    \* history: a spreadsheet was refused since the last menu choice
    data,       \* the user's FSM data (state.update_data / state.get_data)
    access      \* access.py: the access file and the AccessManager built on it

vars == <<text, call, face, pc, files, token, fonts, allowed, fsm, event, refused, data, access>>

layoutVars == <<text, call, face>>
botVars == <<pc, files, token, fonts, allowed, fsm, event, refused, data, access>>

-----------------------------------------------------------------------------
(* Bounds of the model *)

MaxLen == 3         \* longest text handed to the layout engine
MaxSize == 2        \* font sizes range over 1..MaxSize
MaxWidth == 6       \* max_width ranges over 0..MaxWidth
MaxLines == 2       \* max_lines ranges over 0..MaxLines
MaxY == 4           \* y_top and max_height range over 0..MaxY points
LoopBound == 16     \* iterations of wrap_lines' while loop that are followed
MaxRows == 2        \* most data rows of an uploaded spreadsheet
MaxNames == 3       \* most base names handed to unique_names
MaxTierPrice == 60  \* prices 0..MaxTierPrice (and MaxPrice) are categorised
MaxPhraseHours == 25    \* shelf lives 0..MaxPhraseHours (and a few more) are printed
MaxSentenceLen == 5 \* longest text handed to normalize_sentence_case
MonoLen == 5        \* longest text of the monotonicity runs
MonoWidth == 12     \* max_width of the monotonicity runs ranges over 0..MonoWidth

Chars == {"a", "W", " "}
Whitespace == {" "}
Ellipsis == "..."

RECURSIVE TextsUpTo(_)
TextsUpTo(n) ==
    IF n = 0 THEN {<<>>}
    ELSE LET shorter == TextsUpTo(n - 1)
         IN shorter \cup {Append(t, c) : t \in {s \in shorter : Len(s) = n - 1}, c \in Chars}

Texts == TextsUpTo(MaxLen)
Sizes == 1..MaxSize
SizeRanges == {r \in Sizes \X Sizes : r[1] <= r[2]}    \* <<min_size, max_size>>
Widths == 0..MaxWidth
LineCounts == 0..MaxLines
PosLineCounts == 1..MaxLines
Heights == 0..MaxY
BoxLineHeights == {20, 24}     \* line_height 1.0 and 1.2
AboveLineHeights == {21}       \* line_height 1.05
Clearances == {0, 1}

-----------------------------------------------------------------------------
(* String helpers: what re.sub(r"\s+", " ", s.strip()) and str.split do *)

RECURSIVE LStrip(_)
LStrip(s) ==
    IF s = <<>> THEN s
    ELSE IF Head(s) \in Whitespace THEN LStrip(Tail(s)) ELSE s

RECURSIVE RStrip(_)
RStrip(s) ==
    IF s = <<>> THEN s
    ELSE IF s[Len(s)] \in Whitespace THEN RStrip(SubSeq(s, 1, Len(s) - 1)) ELSE s

Strip(s) == RStrip(LStrip(s))

RECURSIVE CollapseWs(_)
CollapseWs(s) ==
    IF s = <<>> THEN s
    ELSE IF Head(s) \in Whitespace
         THEN <<" ">> \o CollapseWs(LStrip(s))
         ELSE <<Head(s)>> \o CollapseWs(Tail(s))

NormalizeSpaces(s) == CollapseWs(Strip(s))

RECURSIVE SplitLoop(_, _, _)
SplitLoop(s, word, words) ==
    IF s = <<>> THEN Append(words, word)
    ELSE IF Head(s) = " "
         THEN SplitLoop(Tail(s), <<>>, Append(words, word))
         ELSE SplitLoop(Tail(s), Append(word, Head(s)), words)

Split(s) == SplitLoop(s, <<>>, <<>>)

Take(s, n) == SubSeq(s, 1, IF Len(s) < n THEN Len(s) ELSE n)

-----------------------------------------------------------------------------
(* Font metrics *)

GlyphWidth(ch) ==
    CASE ch = "a" -> 1
      [] ch = "W" -> 3
      [] ch = " " -> 1
      [] OTHER -> 2

RECURSIVE GlyphSum(_)
GlyphSum(s) == IF s = <<>> THEN 0 ELSE GlyphWidth(Head(s)) + GlyphSum(Tail(s))

text_width(size, s) == size * GlyphSum(s)

\* ascent 0.9 and descent 0.25 of the size
ModelFace == [ascent |-> 18, descent |-> 5]

getAscent(size) == face.ascent * size
getDescent(size) == -(face.descent * size)
Abs(x) == IF x < 0 THEN -x ELSE x

-----------------------------------------------------------------------------
(* break_long_word and wrap_lines *)

RECURSIVE BreakLoop(_, _, _, _, _)
BreakLoop(word, parts, buf, size, max_width) ==
    IF word = <<>> THEN (IF buf /= <<>> THEN Append(parts, buf) ELSE parts)
    ELSE LET ch == Head(word)
             test == Append(buf, ch)
         IN IF text_width(size, test) <= max_width
            THEN BreakLoop(Tail(word), parts, test, size, max_width)
            ELSE IF buf /= <<>>
                 THEN BreakLoop(Tail(word), Append(parts, buf), <<ch>>, size, max_width)
                 ELSE BreakLoop(Tail(word), Append(parts, <<ch>>), <<>>, size, max_width)

break_long_word(word, size, max_width) == BreakLoop(word, <<>>, <<>>, size, max_width)

NoLines == [tag |-> "None", lines |-> <<>>]
Raised == [tag |-> "raise", lines |-> <<>>]
Diverged == [tag |-> "diverge", lines |-> <<>>]
Wrapped(lines) == [tag |-> "lines", lines |-> lines]

\* A push that forgets the lines closed before.
PushLineOverwriting(lines, current) == <<current>>

\* The line the loop closes on overflow.
PushLine(lines, current) == Append(lines, current)

\* The test made after a line is closed: too many lines already.
LinesNeverExhausted(lines, max_lines) == FALSE
LinesExhausted(lines, max_lines) == Len(lines) >= max_lines

\* The pieces a too-wide word is replaced by in the word stream.
SpliceWord(words, i, pieces) ==
    SubSeq(words, 1, i - 1) \o pieces \o SubSeq(words, i + 1, Len(words))

\* The test that the candidate line (the current line, a space, the word) fits.
CandidateFitsWordOnly(size, test, w, max_width) == text_width(size, w) <= max_width
CandidateFits(size, test, w, max_width) == text_width(size, test) <= max_width

RECURSIVE WrapLoop(_, _, _, _, _, _, _, _, _)
WrapLoop(words, i, lines, current, size, max_width, max_lines, allow_word_break, fuel) ==
    IF i > Len(words)
    THEN LET final == IF current /= <<>> THEN PushLine(lines, current) ELSE lines
         IN IF Len(final) <= max_lines THEN Wrapped(final) ELSE NoLines
    ELSE IF fuel = 0 THEN Diverged
    ELSE LET tooWide == text_width(size, words[i]) > max_width
         IN IF tooWide /\ ~allow_word_break THEN NoLines
            ELSE LET words1 == IF tooWide
                               THEN SpliceWord(words, i, break_long_word(words[i], size, max_width))
                               ELSE words
                 IN IF i > Len(words1) THEN Raised
                    ELSE LET w == words1[i]
                             test == IF current /= <<>>
                                     THEN Strip(current \o <<" ">> \o w)
                                     ELSE w
                         IN IF CandidateFits(size, test, w, max_width)
                            THEN WrapLoop(words1, i + 1, lines, test, size, max_width,
                                          max_lines, allow_word_break, fuel - 1)
                            ELSE LET lines1 == PushLine(lines, current)
                                 IN IF LinesExhausted(lines1, max_lines) THEN NoLines
                                    ELSE WrapLoop(words1, i, lines1, <<>>, size, max_width,
                                                  max_lines, allow_word_break, fuel - 1)

wrap_lines(txt, size, max_width, max_lines, allow_word_break) ==
    LET t == NormalizeSpaces(txt)
    IN IF t = <<>> THEN NoLines
       ELSE WrapLoop(Split(t), 1, <<>>, <<>>, size, max_width, max_lines,
                     allow_word_break, LoopBound)

\* Python's truth value of wrap_lines' result: a non-empty list.
Truthy(r) == r.tag = "lines" /\ r.lines /= <<>>
Failed(r) == r.tag \in {"raise", "diverge"}

-----------------------------------------------------------------------------
(* fit_text, fit_text_in_box *)

TruncLen == 20

TruncatedLine(txt) == Strip(Append(Take(Strip(txt), TruncLen), Ellipsis))

Fitted(size, lines, path) ==
    [tag |-> "ok", size |-> size, lines |-> lines, path |-> path, last_baseline |-> 0]
FitFailed(r) ==
    [tag |-> r.tag, size |-> 0, lines |-> <<>>, path |-> "failed", last_baseline |-> 0]

\* The size a fitter falls back to when the scan accepts none.
FallbackSizeBelow(max_size, min_size) == min_size - 1
FallbackSize(max_size, min_size) == min_size

FitFallback(txt, max_size, min_size, max_width, max_lines, allow_word_break) ==
    LET size == FallbackSize(max_size, min_size)
        r == wrap_lines(txt, size, max_width, max_lines, allow_word_break)
    IN IF Failed(r) THEN FitFailed(r)
       ELSE IF Truthy(r) THEN Fitted(size, r.lines, "fallback")
       ELSE Fitted(size, <<TruncatedLine(txt)>>, "truncated")

RECURSIVE FitTextScan(_, _, _, _, _, _, _)
FitTextScan(txt, size, max_size, min_size, max_width, max_lines, allow_word_break) ==
    IF size < min_size
    THEN FitFallback(txt, max_size, min_size, max_width, max_lines, allow_word_break)
    ELSE LET r == wrap_lines(txt, size, max_width, max_lines, allow_word_break)
         IN IF Failed(r) THEN FitFailed(r)
            ELSE IF Truthy(r) THEN Fitted(size, r.lines, "scan")
            ELSE FitTextScan(txt, size - 1, max_size, min_size, max_width, max_lines,
                             allow_word_break)

fit_text_below_max(txt, max_size, min_size, max_width, max_lines, allow_word_break) ==
    FitTextScan(txt, max_size - 1, max_size, min_size, max_width, max_lines, allow_word_break)

fit_text(txt, max_size, min_size, max_width, max_lines, allow_word_break) ==
    FitTextScan(txt, max_size, max_size, min_size, max_width, max_lines, allow_word_break)

\* needed_h <= max_height, in twentieths of a point
HeightFitsOneLine(size, line_height, n, max_height) == size * line_height <= 20 * max_height
HeightFits(size, line_height, n, max_height) == size * line_height * n <= 20 * max_height

RECURSIVE FitBoxScan(_, _, _, _, _, _, _, _, _)
FitBoxScan(txt, size, max_size, min_size, max_width, max_lines, max_height, line_height, allow_word_break) ==
    IF size < min_size
    THEN FitFallback(txt, max_size, min_size, max_width, max_lines, allow_word_break)
    ELSE LET r == wrap_lines(txt, size, max_width, max_lines, allow_word_break)
         IN IF Failed(r) THEN FitFailed(r)
            ELSE IF Truthy(r) /\ HeightFits(size, line_height, Len(r.lines), max_height)
                 THEN Fitted(size, r.lines, "scan")
                 ELSE FitBoxScan(txt, size - 1, max_size, min_size, max_width, max_lines,
                                 max_height, line_height, allow_word_break)

fit_text_in_box(txt, max_size, min_size, max_width, max_lines, max_height, line_height, allow_word_break) ==
    FitBoxScan(txt, max_size, max_size, min_size, max_width, max_lines, max_height,
               line_height, allow_word_break)

-----------------------------------------------------------------------------
(* fit_text_above_line: y values in twentieths of a point *)

Anchored(size, lines, last_baseline, path) ==
    [tag |-> "ok", size |-> size, lines |-> lines, path |-> path, last_baseline |-> last_baseline]

\* last_baseline = y_min_glyph + descent
LastBaseline(y_line, clearance, size) == 20 * (y_line + clearance) + Abs(getDescent(size))

\* top_glyph = last_baseline + (len(lines) - 1) * size * line_height + ascent
TopGlyph(last_baseline, n, size, line_height) ==
    last_baseline + (n - 1) * (size * line_height) + getAscent(size)

\* the fallback's shift of the last baseline when the text is still too high
ClampNever(last_baseline, top_glyph, y_top) == last_baseline
Clamp(last_baseline, top_glyph, y_top) ==
    IF top_glyph > 20 * y_top THEN last_baseline - (top_glyph - 20 * y_top) ELSE last_baseline

\* the early return for empty text
EmptyAnchor(min_size, y_line, clearance) ==
    Anchored(min_size, <<(<<>>)>>, 20 * (y_line + clearance), "empty")

AboveFallback(t, min_size, max_width, max_lines, y_top, y_line, clearance, line_height, allow_word_break) ==
    LET size == min_size
        r == wrap_lines(t, size, max_width, max_lines, allow_word_break)
        lines == IF Truthy(r) THEN r.lines ELSE <<t>>
        last == LastBaseline(y_line, clearance, size)
        top == TopGlyph(last, Len(lines), size, line_height)
    IN IF Failed(r) THEN FitFailed(r)
       ELSE Anchored(size, lines, Clamp(last, top, y_top),
                     IF top > 20 * y_top THEN "clamped" ELSE "fallback")

\* the loop "for size in range(max_size, min_size - 1, -1)": it stops at the
\* largest size whose wrap raises or whose wrapped lines fit under y_top
AboveScan(t, size, min_size, max_width, max_lines, y_top, y_line, clearance, line_height, allow_word_break) ==
    LET WrapAt(s) == wrap_lines(t, s, max_width, max_lines, allow_word_break)
        StopsAt(s) ==
            \/ Failed(WrapAt(s))
            \/ /\ Truthy(WrapAt(s))
               /\ TopGlyph(LastBaseline(y_line, clearance, s), Len(WrapAt(s).lines), s,
                           line_height) <= 20 * y_top
        stops == {s \in min_size..size : StopsAt(s)}
    IN IF stops = {}
       THEN AboveFallback(t, min_size, max_width, max_lines, y_top, y_line, clearance,
                          line_height, allow_word_break)
       ELSE LET s == CHOOSE x \in stops : \A y \in stops : y <= x
                r == WrapAt(s)
            IN IF Failed(r) THEN FitFailed(r)
               ELSE Anchored(s, r.lines, LastBaseline(y_line, clearance, s), "scan")

fit_text_above_line(txt, max_size, min_size, max_width, max_lines, y_top, y_line, clearance, line_height, allow_word_break) ==
    LET t == NormalizeSpaces(txt)
    IN IF t = <<>> THEN EmptyAnchor(min_size, y_line, clearance)
       ELSE AboveScan(t, max_size, min_size, max_width, max_lines, y_top, y_line,
                      clearance, line_height, allow_word_break)

-----------------------------------------------------------------------------
(* The layout engine as a program: a text block is given, one call is made *)

NoCall == [op |-> "none"]

\* The bot is not part of the layout runs.
\* a message without a document
NoMsg == [doc |-> "none", corrupt |-> FALSE, rows |-> <<>>, text |-> <<>>]

\* no update is being handled
NoEvent ==
    [kind |-> "none", msg |-> NoMsg, outcome |-> "none", error |-> "none", archive |-> <<>>,
     sender |-> "none", target |-> "none"]

\* FSM data after state.clear()
NoData == [k \in {} |-> <<>>]

\* no access file, no AccessManager (the bot model follows one user's answer
\* of is_allowed in the variable allowed instead)
NoFile == [exists |-> FALSE, json |-> "none", ids |-> <<>>]
NoAccess == [file |-> NoFile, loaded |-> FALSE, allowed_ids |-> {}]

BotIdle ==
    /\ pc = "off"
    /\ files = {}
    /\ token = FALSE
    /\ fonts = <<>>
    /\ allowed = FALSE
    /\ fsm = "None"
    /\ event = NoEvent
    /\ refused = FALSE
    /\ data = NoData
    /\ access = NoAccess

InitLayout ==
    /\ text \in Texts
    /\ call = NoCall
    /\ face = ModelFace
    /\ BotIdle

CallWrapLines ==
    /\ call = NoCall
    /\ \E size \in Sizes, max_width \in Widths, max_lines \in LineCounts, awb \in BOOLEAN :
          call' = [op |-> "wrap_lines", size |-> size, max_width |-> max_width,
                   max_lines |-> max_lines, allow_word_break |-> awb,
                   result |-> wrap_lines(text, size, max_width, max_lines, awb)]
    /\ UNCHANGED <<text, face, botVars>>

FitTextCall(range, max_width, max_lines, awb) ==
    [op |-> "fit_text", max_size |-> range[2], min_size |-> range[1],
     max_width |-> max_width, max_lines |-> max_lines, allow_word_break |-> awb,
     result |-> fit_text(text, range[2], range[1], max_width, max_lines, awb)]

FitTextInBoxCall(range, max_width, max_lines, max_height, line_height, awb) ==
    [op |-> "fit_text_in_box", max_size |-> range[2], min_size |-> range[1],
     max_width |-> max_width, max_lines |-> max_lines, max_height |-> max_height,
     line_height |-> line_height, allow_word_break |-> awb,
     result |-> fit_text_in_box(text, range[2], range[1], max_width, max_lines,
                                max_height, line_height, awb)]

CallFitText ==
    /\ call = NoCall
    /\ \E range \in SizeRanges, max_width \in Widths, max_lines \in LineCounts,
          awb \in BOOLEAN :
          call' = FitTextCall(range, max_width, max_lines, awb)
    /\ UNCHANGED <<text, face, botVars>>

CallFitTextInBox ==
    /\ call = NoCall
    /\ \E range \in SizeRanges, max_width \in Widths, max_lines \in PosLineCounts,
          max_height \in Heights, line_height \in BoxLineHeights, awb \in BOOLEAN :
          call' = FitTextInBoxCall(range, max_width, max_lines, max_height, line_height, awb)
    /\ UNCHANGED <<text, face, botVars>>

CallFitTextAboveLine ==
    /\ call = NoCall
    /\ \E range \in SizeRanges, max_width \in Widths, max_lines \in PosLineCounts,
          y_top \in Heights, clearance \in Clearances, line_height \in AboveLineHeights,
          awb \in BOOLEAN :
          call' = [op |-> "fit_text_above_line", max_size |-> range[2],
                   min_size |-> range[1], max_width |-> max_width, max_lines |-> max_lines,
                   y_top |-> y_top, y_line |-> 0, clearance |-> clearance,
                   line_height |-> line_height, allow_word_break |-> awb,
                   result |-> fit_text_above_line(text, range[2], range[1], max_width,
                                                  max_lines, y_top, 0, clearance,
                                                  line_height, awb)]
    /\ UNCHANGED <<text, face, botVars>>

NextLayout == CallWrapLines \/ CallFitText \/ CallFitTextInBox \/ CallFitTextAboveLine

Spec == InitLayout /\ [][NextLayout]_vars

-----------------------------------------------------------------------------
(* Properties of the layout engine *)

FitOps == {"fit_text", "fit_text_in_box", "fit_text_above_line"}
IsFit == call.op \in FitOps
Max(S) == CHOOSE m \in S : \A x \in S : x <= m

\* C1: a successful wrap_lines has at most max_lines lines, and every line is
\* non-empty and no wider than max_width.
C1_WrapWithinBounds ==
    (call.op = "wrap_lines" /\ call.result.tag = "lines") =>
        /\ Len(call.result.lines) <= call.max_lines
        /\ \A k \in 1..Len(call.result.lines) :
              /\ call.result.lines[k] /= <<>>
              /\ text_width(call.size, call.result.lines[k]) <= call.max_width

\* A wrap with char-break succeeded on a single word wider than max_width,
\* which break_long_word cut into two lines.
C1_Witness ==
    /\ call.op = "wrap_lines"
    /\ call.allow_word_break
    /\ call.result.tag = "lines"
    /\ Len(call.result.lines) = 2
    /\ Len(Split(NormalizeSpaces(text))) = 1
    /\ text_width(call.size, NormalizeSpaces(text)) > call.max_width

\* C2: with min_size <= max_size every fitter returns a size in
\* [min_size, max_size], on the scan and on every fallback path.
C2_SizeInRange ==
    (IsFit /\ call.min_size <= call.max_size) =>
        /\ call.result.tag = "ok"
        /\ call.min_size <= call.result.size
        /\ call.result.size <= call.max_size

\* A fitter came back from a fallback path with a size range of more than one size.
C2_Witness ==
    /\ IsFit
    /\ call.min_size < call.max_size
    /\ call.result.path \in {"truncated", "clamped", "empty"}

\* C3: wrap_lines terminates without raising; every fitter returns normally
\* with at least one line.
C3_AlwaysALayout ==
    /\ call.op = "wrap_lines" => call.result.tag \in {"lines", "None"}
    /\ IsFit => (call.result.tag = "ok" /\ Len(call.result.lines) >= 1)

\* A fitter was given a single character wider than max_width with char-break
\* allowed, and returned the truncated line.
C3_Witness ==
    /\ call.op = "fit_text"
    /\ call.allow_word_break
    /\ Len(NormalizeSpaces(text)) = 1
    /\ text_width(call.min_size, NormalizeSpaces(text)) > call.max_width
    /\ call.result.tag = "ok"
    /\ call.result.path = "truncated"

\* The acceptance test of the fitter that was called, at size s.
Accepts(s) ==
    LET r == wrap_lines(text, s, call.max_width, call.max_lines, call.allow_word_break)
    IN /\ r.tag = "lines"
       /\ call.op = "fit_text_in_box" =>
              s * call.line_height * Len(r.lines) <= 20 * call.max_height
       /\ call.op = "fit_text_above_line" =>
              20 * (call.y_line + call.clearance) + Abs(getDescent(s))
                 + (Len(r.lines) - 1) * s * call.line_height + getAscent(s)
              <= 20 * call.y_top

Passing == {s \in call.min_size..call.max_size : Accepts(s)}

BoxHeightOk ==
    call.result.size * call.line_height * Len(call.result.lines) <= 20 * call.max_height

\* C5 as stated: every layout fit_text_in_box returns is within max_height.
C5_Original_HeightAlways == call.op = "fit_text_in_box" => BoxHeightOk

\* C5 amended: the layout fit_text_in_box returns is within max_height whenever
\* some size of the range passes both the wrap and the height test.
C5_HeightWhenSomeSizePasses ==
    (call.op = "fit_text_in_box" /\ Passing /= {}) => BoxHeightOk

\* fit_text_in_box accepted a two-line layout at a size below max_size.
C5_Witness ==
    /\ call.op = "fit_text_in_box"
    /\ Passing /= {}
    /\ call.result.size < call.max_size
    /\ Len(call.result.lines) = 2

ResultTopGlyph ==
    call.result.last_baseline
       + (Len(call.result.lines) - 1) * call.result.size * call.line_height
       + getAscent(call.result.size)

-----------------------------------------------------------------------------
(* Monotonicity of the chosen size: fit_text and fit_text_in_box on longer   *)
(* texts and wider boxes                                                    *)

MonoWidths == 0..MonoWidth

InitMono ==
    /\ text \in TextsUpTo(MonoLen)
    /\ call = NoCall
    /\ face = ModelFace
    /\ BotIdle

MonoFitText ==
    /\ call = NoCall
    /\ \E range \in SizeRanges, max_width \in MonoWidths, max_lines \in PosLineCounts,
          awb \in BOOLEAN :
          call' = FitTextCall(range, max_width, max_lines, awb)
    /\ UNCHANGED <<text, face, botVars>>

MonoFitTextInBox ==
    /\ call = NoCall
    /\ \E range \in SizeRanges, max_width \in MonoWidths, max_lines \in PosLineCounts,
          max_height \in {MaxY - 1, MaxY}, awb \in BOOLEAN :
          call' = FitTextInBoxCall(range, max_width, max_lines, max_height, 20, awb)
    /\ UNCHANGED <<text, face, botVars>>

NextMono == MonoFitText \/ MonoFitTextInBox

SpecMono == InitMono /\ [][NextMono]_vars

\* The size the fitter that was called chooses for the same text and arguments in
\* a box of max_width w and max_lines n.
SizeChosenFor(w, n) ==
    IF call.op = "fit_text"
    THEN fit_text(text, call.max_size, call.min_size, w, n, call.allow_word_break).size
    ELSE fit_text_in_box(text, call.max_size, call.min_size, w, n, call.max_height,
                         call.line_height, call.allow_word_break).size

\* C7: shrinking max_width or max_lines never increases the size fit_text and
\* fit_text_in_box choose.
C7_Monotone ==
    call.op \in {"fit_text", "fit_text_in_box"} =>
        \A w \in 0..call.max_width, n \in 1..call.max_lines :
            SizeChosenFor(w, n) <= call.result.size

\* The same with char-break disallowed.
C7_MonotoneWholeWords ==
    (call.op \in {"fit_text", "fit_text_in_box"} /\ ~call.allow_word_break) =>
        \A w \in 0..call.max_width, n \in 1..call.max_lines :
            SizeChosenFor(w, n) <= call.result.size

-----------------------------------------------------------------------------
(* bot.py: startup *)

Assets == {"products_bg", "tea_bank_bg", "tea_box_bg", "tips_front_bg", "tips_back_bg"}
BoldFile == "Unbounded-Bold.ttf"
MediumFile == "Unbounded-Medium.ttf"
SemiBoldFile == "Unbounded-SemiBold.ttf"
RegularFile == "Unbounded-Regular.ttf"
FontFiles == {BoldFile, MediumFile, SemiBoldFile, RegularFile}
AllFiles == Assets \cup FontFiles

\* ensure_assets_exist: the list `required`
RequiredAssetsFrontOnly == Assets \ {"tips_back_bg"}
RequiredAssets == Assets

\* ensure_assets_exist returns (TRUE) or raises FileNotFoundError (FALSE)
ensure_assets_exist(fs) == RequiredAssets \subseteq fs

\* register_unbounded_fonts: the three paths checked in the for loop
CheckedFonts == {BoldFile, MediumFile, SemiBoldFile}

NoFonts == [regular |-> "", medium |-> "", semibold |-> "", bold |-> ""]

\* register_unbounded_fonts: the file each weight is registered from, or a raise
register_unbounded_fonts(fs) ==
    IF CheckedFonts \subseteq fs
    THEN [ok |-> TRUE,
          fonts |-> [regular |-> IF RegularFile \in fs THEN RegularFile ELSE MediumFile,
                     medium |-> MediumFile, semibold |-> SemiBoldFile, bold |-> BoldFile]]
    ELSE [ok |-> FALSE, fonts |-> NoFonts]

LayoutIdle ==
    /\ text = <<>>
    /\ call = NoCall
    /\ face = ModelFace

LoadEnv ==
    /\ pc = "start"
    /\ pc' = IF token THEN "env_loaded" ELSE "crashed"
    /\ UNCHANGED <<files, token, fonts, allowed, fsm, event, refused, data, layoutVars, access>>

EnsureAssets ==
    /\ pc = "env_loaded"
    /\ pc' = IF ensure_assets_exist(files) THEN "assets_ok" ELSE "crashed"
    /\ UNCHANGED <<files, token, fonts, allowed, fsm, event, refused, data, layoutVars, access>>

RegisterFonts ==
    /\ pc = "assets_ok"
    /\ LET r == register_unbounded_fonts(files)
       IN /\ pc' = IF r.ok THEN "fonts_ok" ELSE "crashed"
          /\ fonts' = r.fonts
    /\ UNCHANGED <<files, token, allowed, fsm, event, refused, data, layoutVars, access>>

StartPolling ==
    /\ pc = "fonts_ok"
    /\ pc' = "polling"
    /\ UNCHANGED <<files, token, fonts, allowed, fsm, event, refused, data, layoutVars, access>>

-----------------------------------------------------------------------------
(* render.py: spreadsheet cells, parse_int_number, load_rows_* *)

\* A cell value as openpyxl hands it over: None, a string, an int, or a float
\* (a float is kept in tenths, so 25 is 2.5 and 30 is 3.0).
NoneCell == [t |-> "none", s |-> <<>>, v |-> 0]
StrCell(s) == [t |-> "str", s |-> s, v |-> 0]
IntCell(v) == [t |-> "int", s |-> <<>>, v |-> v]
FloatCell(tenths) == [t |-> "float", s |-> <<>>, v |-> tenths]

\* str(value)
PyStr(c) ==
    CASE c.t = "str" -> c.s
      [] c.t = "int" -> <<ToString(c.v)>>
      [] c.t = "float" -> <<ToString(c.v \div 10), ".", ToString(c.v % 10)>>
      [] OTHER -> <<"N", "o", "n", "e">>

Digits == {"0", "1", "2", "3", "4", "5", "6", "7", "8", "9"}

DigitValue(ch) ==
    CASE ch = "0" -> 0 [] ch = "1" -> 1 [] ch = "2" -> 2 [] ch = "3" -> 3 [] ch = "4" -> 4
      [] ch = "5" -> 5 [] ch = "6" -> 6 [] ch = "7" -> 7 [] ch = "8" -> 8 [] OTHER -> 9

RECURSIVE DigitsValue(_)
DigitsValue(ds) ==
    IF ds = <<>> THEN 0
    ELSE 10 * DigitsValue(SubSeq(ds, 1, Len(ds) - 1)) + DigitValue(ds[Len(ds)])

AllIn(s, S) == \A i \in 1..Len(s) : s[i] \in S

\* .replace(",", ".")
ReplaceComma(s) == [i \in 1..Len(s) |-> IF s[i] = "," THEN "." ELSE s[i]]

DotsOf(s) == {i \in 1..Len(s) : s[i] = "."}
FirstDot(s) == CHOOSE i \in DotsOf(s) : \A j \in DotsOf(s) : i <= j

\* the digits matched by \d+ in the pattern \d+(\.0+)?
IntegerPart(s) == IF DotsOf(s) = {} THEN s ELSE SubSeq(s, 1, FirstDot(s) - 1)

\* re.fullmatch(r"\d+(\.0+)?", s)
FullMatchInt(s) ==
    /\ IntegerPart(s) # <<>>
    /\ AllIn(IntegerPart(s), Digits)
    /\ DotsOf(s) # {} =>
         /\ FirstDot(s) < Len(s)
         /\ AllIn(SubSeq(s, FirstDot(s) + 1, Len(s)), {"0"})

NoInt == [some |-> FALSE, v |-> 0]
SomeInt(v) == [some |-> TRUE, v |-> v]

\* parse_int_number with the non-integer float truncated instead of refused
parse_int_number_truncating(c) ==
    CASE c.t = "none" -> NoInt
      [] c.t = "int" -> SomeInt(c.v)
      [] c.t = "float" -> SomeInt(c.v \div 10)
      [] OTHER ->
           LET s == ReplaceComma(Strip(PyStr(c)))
           IN IF FullMatchInt(s) THEN SomeInt(DigitsValue(IntegerPart(s))) ELSE NoInt

parse_int_number(c) ==
    CASE c.t = "none" -> NoInt
      [] c.t = "int" -> SomeInt(c.v)
      [] c.t = "float" -> IF c.v % 10 = 0 THEN SomeInt(c.v \div 10) ELSE NoInt
      [] OTHER ->
           LET s == ReplaceComma(Strip(PyStr(c)))
           IN IF FullMatchInt(s) THEN SomeInt(DigitsValue(IntegerPart(s))) ELSE NoInt

MaxPrice == 1000000
MaxHours == 24 * 365
MaxNameLen == 80

\* the test `x is None or str(x).strip() == ""`
IsBlank(c) == c.t = "none" \/ Strip(PyStr(c)) = <<>>

\* `str(x).strip() if x is not None else ""`
StripOrEmpty(c) == IF c.t = "none" THEN <<>> ELSE Strip(PyStr(c))

\* `(r[0], r[1], r[2]) if len(r) >= 3 else (None, None, None)`
Fields(r) == IF Len(r) >= 3 THEN <<r[1], r[2], r[3]>> ELSE <<NoneCell, NoneCell, NoneCell>>

AllBlank(f) == IsBlank(f[1]) /\ IsBlank(f[2]) /\ IsBlank(f[3])

\* `x is None or x < 0 or x > hi` with the upper test left out
OutOfRangeNoUpper(x, hi) == ~x.some \/ x.v < 0

\* `x is None or x < 0 or x > hi`
OutOfRange(x, hi) == ~x.some \/ x.v < 0 \/ x.v > hi

Loaded(rows) == [ok |-> TRUE, rows |-> rows, error |-> "none"]
LoadError(e) == [ok |-> FALSE, rows |-> <<>>, error |-> e]

RECURSIVE TeaRowsLoop(_, _, _)
TeaRowsLoop(sheet, i, rows) ==
    IF i > Len(sheet)
    THEN IF rows = <<>> THEN LoadError("empty") ELSE Loaded(rows)
    ELSE LET f == Fields(sheet[i])
             tea_type_s == StripOrEmpty(f[1])
             name_s == StripOrEmpty(f[2])
             price_i == parse_int_number(f[3])
         IN IF AllBlank(f) THEN TeaRowsLoop(sheet, i + 1, rows)
            ELSE IF tea_type_s = <<>> THEN LoadError("tea_type")
            ELSE IF name_s = <<>> THEN LoadError("name")
            ELSE IF OutOfRange(price_i, MaxPrice) THEN LoadError("price")
            ELSE TeaRowsLoop(sheet, i + 1, Append(rows, <<tea_type_s, name_s, price_i.v>>))

\* load_workbook raises on a file that is not a workbook
load_rows_tea(msg) ==
    IF msg.corrupt THEN LoadError("workbook") ELSE TeaRowsLoop(msg.rows, 1, <<>>)

RECURSIVE ProductRowsLoop(_, _, _)
ProductRowsLoop(sheet, i, rows) ==
    IF i > Len(sheet)
    THEN IF rows = <<>> THEN LoadError("empty") ELSE Loaded(rows)
    ELSE LET f == Fields(sheet[i])
             name_s == StripOrEmpty(f[1])
             price_i == parse_int_number(f[2])
             hours_i == parse_int_number(f[3])
         IN IF AllBlank(f) THEN ProductRowsLoop(sheet, i + 1, rows)
            ELSE IF name_s = <<>> THEN LoadError("name")
            ELSE IF OutOfRange(price_i, MaxPrice) THEN LoadError("price")
            ELSE IF OutOfRange(hours_i, MaxHours) THEN LoadError("hours")
            ELSE ProductRowsLoop(sheet, i + 1, Append(rows, <<name_s, price_i.v, hours_i.v>>))

load_rows_products(msg) ==
    IF msg.corrupt THEN LoadError("workbook") ELSE ProductRowsLoop(msg.rows, 1, <<>>)

\* the characters of the class [\\/:*?\"<>|\n\r\t]
Forbidden == {"\\", "/", ":", "*", "?", "\"", "<", ">", "|", "\n", "\r", "\t"}

SubForbidden(s) == [i \in 1..Len(s) |-> IF s[i] \in Forbidden THEN " " ELSE s[i]]

safe_filename(name) ==
    LET cleaned == NormalizeSpaces(SubForbidden(Strip(name)))
        named == IF cleaned = <<>> THEN <<"i", "t", "e", "m">> ELSE cleaned
    IN IF Len(named) > MaxNameLen THEN RStrip(Take(named, MaxNameLen)) ELSE named

\* the suffix counting the duplicates only (first duplicate _1)
SuffixedFromOne(n, k) == n \o <<"_", ToString(k - 1)>>

\* f"{n}_{used[n]}"
Suffixed(n, k) == n \o <<"_", ToString(k)>>

RECURSIVE UniqueLoop(_, _, _, _)
UniqueLoop(base_names, i, used, out) ==
    IF i > Len(base_names) THEN out
    ELSE LET n == base_names[i]
         IN IF n \notin DOMAIN used
            THEN UniqueLoop(base_names, i + 1, (n :> 1) @@ used, Append(out, n))
            ELSE UniqueLoop(base_names, i + 1, (n :> used[n] + 1) @@ used,
                            Append(out, Suffixed(n, used[n] + 1)))

unique_names(base_names) == UniqueLoop(base_names, 1, <<>>, <<>>)

-----------------------------------------------------------------------------
(* handlers.py: the menu, and the two spreadsheet conversations *)

\* what make_pdf_tea_bank, make_pdf_tea_box and make_pdf_products_two_sides
\* return: the document built from one row
make_pdf_tea_bank(row) == [fn |-> "make_pdf_tea_bank", args |-> row]
make_pdf_tea_box(row) == [fn |-> "make_pdf_tea_box", args |-> row]
make_pdf_products_two_sides(row) == [fn |-> "make_pdf_products_two_sides", args |-> row]

BankFolder == "banks"     \* "Ценники для банок/"
BoxFolder == "boxes"      \* "Ценники для коробок/"
RootFolder == ""

\* z.writestr(f"{folder}{fname}.pdf", pdf)
ZipEntry(folder, fname, pdf) == [folder |-> folder, name |-> fname \o <<".pdf">>, pdf |-> pdf]

ShorterLen(a, b) == IF Len(a) < Len(b) THEN Len(a) ELSE Len(b)

\* the tea loop with names[i] taken from the end of the list
RECURSIVE TeaZipLoopReversed(_, _, _, _)
TeaZipLoopReversed(rows, names, i, z) ==
    IF i > ShorterLen(rows, names) THEN z
    ELSE LET fname == names[Len(names) + 1 - i]
         IN TeaZipLoopReversed(rows, names, i + 1,
              z \o << ZipEntry(BankFolder, fname, make_pdf_tea_bank(rows[i])),
                      ZipEntry(BoxFolder, fname, make_pdf_tea_box(rows[i])) >>)

\* `for (tea_type, name, price), fname in zip(rows, base_names)` of tea_receive_xlsx
RECURSIVE TeaZipLoop(_, _, _, _)
TeaZipLoop(rows, names, i, z) ==
    IF i > ShorterLen(rows, names) THEN z
    ELSE LET fname == names[i]
         IN TeaZipLoop(rows, names, i + 1,
              z \o << ZipEntry(BankFolder, fname, make_pdf_tea_bank(rows[i])),
                      ZipEntry(BoxFolder, fname, make_pdf_tea_box(rows[i])) >>)

\* `for (name, price, hours), fname in zip(rows, base_names)` of products_receive_xlsx
RECURSIVE ProductsZipLoop(_, _, _, _)
ProductsZipLoop(rows, names, i, z) ==
    IF i > ShorterLen(rows, names) THEN z
    ELSE ProductsZipLoop(rows, names, i + 1,
              Append(z, ZipEntry(RootFolder, names[i], make_pdf_products_two_sides(rows[i]))))

\* `[safe_filename(r[k]) for r in rows]`
BaseNames(rows, k) == [i \in 1..Len(rows) |-> safe_filename(rows[i][k])]

is_xlsx(msg) == msg.doc = "xlsx"

Handled(kind, msg, outcome, error, archive) ==
    [kind |-> kind, msg |-> msg, outcome |-> outcome, error |-> error, archive |-> archive,
     sender |-> "user", target |-> "none"]

SeqsUpTo(S, n) == UNION {[1..k -> S] : k \in 0..n}

\* the cells the uploads are drawn from
TeaTypeCells == {NoneCell, StrCell(<<"a">>)}
NameCells == {StrCell(<<" ">>), StrCell(<<"a">>), StrCell(<<"b">>)}
TeaPriceCells ==
    {NoneCell, IntCell(0), IntCell(MaxPrice + 1), FloatCell(25),
     StrCell(<<"7", ",", "0">>), StrCell(<<"x">>)}
ProductNameCells == {NoneCell, StrCell(<<"a">>), StrCell(<<"b">>)}
ProductPriceCells == {NoneCell, IntCell(0 - 1), IntCell(MaxPrice)}
HoursCells == {NoneCell, IntCell(MaxHours), IntCell(MaxHours + 1), FloatCell(30)}

\* a sheet with fewer than three columns hands over short rows
ShortRows == {<<StrCell(<<"a">>), StrCell(<<"a">>)>>}
ShortSheets == SeqsUpTo(ShortRows, MaxRows) \ {<<>>}

TeaSheets == SeqsUpTo(TeaTypeCells \X NameCells \X TeaPriceCells, MaxRows) \cup ShortSheets
ProductSheets ==
    SeqsUpTo(ProductNameCells \X ProductPriceCells \X HoursCells, MaxRows) \cup ShortSheets

Workbook(rows) == [doc |-> "xlsx", corrupt |-> FALSE, rows |-> rows, text |-> <<>>]

\* a text message, a document that is not .xlsx, and an .xlsx that is no workbook
OtherMessages ==
    {NoMsg, [doc |-> "pdf", corrupt |-> FALSE, rows |-> <<>>, text |-> <<>>],
     [doc |-> "xlsx", corrupt |-> TRUE, rows |-> <<>>, text |-> <<>>]}

TeaUploads == OtherMessages \cup {Workbook(rows) : rows \in TeaSheets}
ProductUploads == OtherMessages \cup {Workbook(rows) : rows \in ProductSheets}

Serving ==
    /\ pc = "polling"
    /\ event = NoEvent

cmd_start ==
    /\ Serving
    /\ IF ~allowed
       THEN /\ event' = Handled("cmd_start", NoMsg, "denied", "none", <<>>)
            /\ UNCHANGED <<fsm, refused, data>>
       ELSE /\ fsm' = "None"
            /\ data' = NoData
            /\ refused' = FALSE
            /\ event' = Handled("cmd_start", NoMsg, "welcome", "none", <<>>)
    /\ UNCHANGED <<pc, files, token, fonts, allowed, layoutVars, access>>

cb_cancel ==
    /\ Serving
    /\ IF ~allowed
       THEN /\ event' = Handled("cb_cancel", NoMsg, "denied", "none", <<>>)
            /\ UNCHANGED <<fsm, refused, data>>
       ELSE /\ fsm' = "None"
            /\ data' = NoData
            /\ refused' = FALSE
            /\ event' = Handled("cb_cancel", NoMsg, "welcome", "none", <<>>)
    /\ UNCHANGED <<pc, files, token, fonts, allowed, layoutVars, access>>

cb_tea ==
    /\ Serving
    /\ IF ~allowed
       THEN /\ event' = Handled("cb_tea", NoMsg, "denied", "none", <<>>)
            /\ UNCHANGED <<fsm, refused, data>>
       ELSE /\ fsm' = "wait_tea_xlsx"
            /\ refused' = FALSE
            /\ UNCHANGED data
            /\ event' = Handled("cb_tea", NoMsg, "template", "none", <<>>)
    /\ UNCHANGED <<pc, files, token, fonts, allowed, layoutVars, access>>

cb_products ==
    /\ Serving
    /\ IF ~allowed
       THEN /\ event' = Handled("cb_products", NoMsg, "denied", "none", <<>>)
            /\ UNCHANGED <<fsm, refused, data>>
       ELSE /\ fsm' = "wait_products_xlsx"
            /\ refused' = FALSE
            /\ UNCHANGED data
            /\ event' = Handled("cb_products", NoMsg, "template", "none", <<>>)
    /\ UNCHANGED <<pc, files, token, fonts, allowed, layoutVars, access>>

\* tea_receive_xlsx on a message of an allowed user
TeaReceive(msg) ==
    IF ~is_xlsx(msg)
    THEN /\ event' = Handled("tea_receive_xlsx", msg, "not_xlsx", "none", <<>>)
         /\ UNCHANGED <<fsm, refused, data>>
    ELSE LET loaded == load_rows_tea(msg)
             base_names == unique_names(BaseNames(loaded.rows, 2))
         IN IF ~loaded.ok
            THEN /\ event' = Handled("tea_receive_xlsx", msg, "error", loaded.error, <<>>)
                 /\ refused' = TRUE
                 /\ UNCHANGED <<fsm, data>>
            ELSE /\ event' = Handled("tea_receive_xlsx", msg, "sent", "none",
                                     TeaZipLoop(loaded.rows, base_names, 1, <<>>))
                 /\ fsm' = "None"
                 /\ data' = NoData
                 /\ UNCHANGED refused

TeaReceiveXlsx(uploads) ==
    /\ Serving
    /\ fsm = "wait_tea_xlsx"
    /\ \E msg \in uploads :
         IF ~allowed
         THEN /\ event' = Handled("tea_receive_xlsx", msg, "denied", "none", <<>>)
              /\ UNCHANGED <<fsm, refused, data>>
         ELSE TeaReceive(msg)
    /\ UNCHANGED <<pc, files, token, fonts, allowed, layoutVars, access>>

tea_receive_xlsx == TeaReceiveXlsx(TeaUploads)

\* products_receive_xlsx on a message of an allowed user
ProductsReceive(msg) ==
    IF ~is_xlsx(msg)
    THEN /\ event' = Handled("products_receive_xlsx", msg, "not_xlsx", "none", <<>>)
         /\ UNCHANGED <<fsm, refused, data>>
    ELSE LET loaded == load_rows_products(msg)
             base_names == unique_names(BaseNames(loaded.rows, 1))
         IN IF ~loaded.ok
            THEN /\ event' = Handled("products_receive_xlsx", msg, "error", loaded.error, <<>>)
                 /\ refused' = TRUE
                 /\ UNCHANGED <<fsm, data>>
            ELSE /\ event' = Handled("products_receive_xlsx", msg, "sent", "none",
                                     ProductsZipLoop(loaded.rows, base_names, 1, <<>>))
                 /\ fsm' = "None"
                 /\ data' = NoData
                 /\ UNCHANGED refused

ProductsReceiveXlsx(uploads) ==
    /\ Serving
    /\ fsm = "wait_products_xlsx"
    /\ \E msg \in uploads :
         IF ~allowed
         THEN /\ event' = Handled("products_receive_xlsx", msg, "denied", "none", <<>>)
              /\ UNCHANGED <<fsm, refused, data>>
         ELSE ProductsReceive(msg)
    /\ UNCHANGED <<pc, files, token, fonts, allowed, layoutVars, access>>

products_receive_xlsx == ProductsReceiveXlsx(ProductUploads)

\* the handler coroutine finishes and the dispatcher waits for the next update
HandlerReturns ==
    /\ pc = "polling"
    /\ event # NoEvent
    /\ event' = NoEvent
    /\ UNCHANGED <<pc, files, token, fonts, allowed, fsm, refused, data, layoutVars, access>>

InitBot ==
    /\ pc = "start"
    /\ files \in SUBSET AllFiles
    /\ token \in BOOLEAN
    /\ allowed \in BOOLEAN
    /\ fonts = NoFonts
    /\ fsm = "None"
    /\ event = NoEvent
    /\ refused = FALSE
    /\ data = NoData
    /\ access = NoAccess
    /\ LayoutIdle

NextBot ==
    \/ LoadEnv
    \/ EnsureAssets
    \/ RegisterFonts
    \/ StartPolling
    \/ cmd_start
    \/ cb_cancel
    \/ cb_tea
    \/ tea_receive_xlsx
    \/ cb_products
    \/ products_receive_xlsx
    \/ HandlerReturns

SpecBot == InitBot /\ [][NextBot]_vars

-----------------------------------------------------------------------------
(* Spreadsheet uploads: what the specification promises *)

UploadHandlers == {"tea_receive_xlsx", "products_receive_xlsx"}

WaitStateOf(kind) == IF kind = "tea_receive_xlsx" THEN "wait_tea_xlsx" ELSE "wait_products_xlsx"

\* an allowed user's .xlsx document has been handled
SpreadsheetHandled ==
    /\ event.kind \in UploadHandlers
    /\ allowed
    /\ event.msg.doc = "xlsx"

CellEmpty(c) == c.t = "none" \/ (c.t = "str" /\ AllIn(c.s, {" "}))

RowNonBlank(r) == \E i \in 1..Len(r) : ~CellEmpty(r[i])

\* the positions k at which a numeral's digits end: digits, then nothing or a
\* decimal mark followed by zeros only
NumeralEnds(s) ==
    {k \in 1..Len(s) :
        /\ AllIn(SubSeq(s, 1, k), Digits)
        /\ \/ k = Len(s)
           \/ /\ k + 1 < Len(s)
              /\ s[k + 1] \in {".", ","}
              /\ AllIn(SubSeq(s, k + 2, Len(s)), {"0"})}

\* the integers a cell denotes (none or one)
IntegersOf(c) ==
    CASE c.t = "int" -> {c.v}
      [] c.t = "float" -> IF c.v % 10 = 0 THEN {c.v \div 10} ELSE {}
      [] c.t = "str" -> {DigitsValue(SubSeq(Strip(c.s), 1, k)) : k \in NumeralEnds(Strip(c.s))}
      [] OTHER -> {}

IntegerIn(c, lo, hi) == \E n \in IntegersOf(c) : lo <= n /\ n <= hi

RowValid(kind, r) ==
    /\ Len(r) >= 3
    /\ IF kind = "tea_receive_xlsx"
       THEN ~CellEmpty(r[1]) /\ ~CellEmpty(r[2]) /\ IntegerIn(r[3], 0, 1000000)
       ELSE ~CellEmpty(r[1]) /\ IntegerIn(r[2], 0, 1000000) /\ IntegerIn(r[3], 0, 8760)

SheetAccepted(kind, msg) ==
    /\ ~msg.corrupt
    /\ \E i \in 1..Len(msg.rows) : RowNonBlank(msg.rows[i])
    /\ \A i \in 1..Len(msg.rows) : RowNonBlank(msg.rows[i]) => RowValid(kind, msg.rows[i])

\* C8: an uploaded spreadsheet produces documents if and only if it has a
\* non-blank row and every non-blank row is valid; otherwise the handler
\* reports the load error, builds nothing, sends no archive and leaves the
\* conversation in its waiting-for-file state, where the same holds for the
\* next upload.
C8_UploadAllOrNothing ==
    SpreadsheetHandled =>
        /\ (event.outcome = "sent") <=> SheetAccepted(event.kind, event.msg)
        /\ event.outcome = "sent" => event.archive # <<>> /\ fsm = "None"
        /\ event.outcome # "sent" =>
             /\ event.outcome = "error"
             /\ event.error # "none"
             /\ event.archive = <<>>
             /\ fsm = WaitStateOf(event.kind)
             /\ refused

\* a valid upload, with a blank row in it, is processed after an earlier
\* spreadsheet was refused in the same conversation
C8_Witness ==
    /\ SpreadsheetHandled
    /\ refused
    /\ event.outcome = "sent"
    /\ \E i \in 1..Len(event.msg.rows) : ~RowNonBlank(event.msg.rows[i])

-----------------------------------------------------------------------------
(* Startup: what the specification promises *)

FatalFiles == Assets \cup {BoldFile, MediumFile, SemiBoldFile}

\* C9: polling begins, and a handler runs, only if the five backgrounds and
\* the bold, medium and semibold font files were all present at startup; a
\* startup that had its token and all of those never raises, and registers
\* the regular weight from the regular file, or from the medium file when the
\* regular file is missing.
C9_StartupVerified ==
    /\ event # NoEvent => pc = "polling"
    /\ pc = "polling" => FatalFiles \subseteq files
    /\ ~(FatalFiles \subseteq files) => pc \in {"start", "env_loaded", "assets_ok", "crashed"}
    /\ (pc = "crashed" /\ token) => ~(FatalFiles \subseteq files)
    /\ pc \in {"fonts_ok", "polling"} =>
         /\ fonts.regular = IF RegularFile \in files THEN RegularFile ELSE MediumFile
         /\ fonts.medium = MediumFile
         /\ fonts.semibold = SemiBoldFile
         /\ fonts.bold = BoldFile

\* only the regular font file is missing, startup went through to polling,
\* and a handler has built and sent documents
C9_Witness ==
    /\ files = AllFiles \ {RegularFile}
    /\ pc = "polling"
    /\ fonts.regular = MediumFile
    /\ event.outcome = "sent"

-----------------------------------------------------------------------------
(* Batch round trip *)

NonBlankRows(rows) == SelectSeq(rows, RowNonBlank)

TheInteger(c) == CHOOSE n \in IntegersOf(c) : TRUE

\* the values a valid row stands for
TeaValues(r) == <<Strip(r[1].s), Strip(r[2].s), TheInteger(r[3])>>
ProductValues(r) == <<Strip(r[1].s), TheInteger(r[2]), TheInteger(r[3])>>

\* an entry name made of the row's name, possibly with a _k suffix
NameBelongs(entry, name_cell, n) ==
    \/ entry = Strip(name_cell.s) \o <<".pdf">>
    \/ \E k \in 2..n : entry = Strip(name_cell.s) \o <<"_", ToString(k), ".pdf">>

TeaRoundTrip(rows, archive) ==
    /\ Len(archive) = 2 * Len(rows)
    /\ \A i \in 1..Len(rows) :
         /\ archive[2 * i - 1].folder = BankFolder
         /\ archive[2 * i - 1].pdf = [fn |-> "make_pdf_tea_bank", args |-> TeaValues(rows[i])]
         /\ NameBelongs(archive[2 * i - 1].name, rows[i][2], Len(rows))
         /\ archive[2 * i].folder = BoxFolder
         /\ archive[2 * i].pdf = [fn |-> "make_pdf_tea_box", args |-> TeaValues(rows[i])]
         /\ archive[2 * i].name = archive[2 * i - 1].name

ProductsRoundTrip(rows, archive) ==
    /\ Len(archive) = Len(rows)
    /\ \A i \in 1..Len(rows) :
         /\ archive[i].folder = RootFolder
         /\ archive[i].pdf =
              [fn |-> "make_pdf_products_two_sides", args |-> ProductValues(rows[i])]
         /\ NameBelongs(archive[i].name, rows[i][1], Len(rows))

\* C10: for an upload with N valid rows the tea handler writes exactly 2N
\* entries, the bank and the box document of row i at positions 2i-1 and 2i
\* in their two folders, and the products handler writes exactly N entries,
\* the i-th built from, and named after, the i-th row.
C10_BatchRoundTrip ==
    (event.kind \in UploadHandlers /\ event.outcome = "sent") =>
        IF event.kind = "tea_receive_xlsx"
        THEN TeaRoundTrip(NonBlankRows(event.msg.rows), event.archive)
        ELSE ProductsRoundTrip(NonBlankRows(event.msg.rows), event.archive)

\* two valid tea rows of the same name and different prices: four entries,
\* the second pair under a suffixed name
C10_Witness ==
    /\ event.kind = "tea_receive_xlsx"
    /\ event.outcome = "sent"
    /\ Len(event.archive) = 4
    /\ event.msg.rows[1][2] = event.msg.rows[2][2]
    /\ event.msg.rows[1][3] # event.msg.rows[2][3]
    /\ event.archive[1].name # event.archive[3].name

-----------------------------------------------------------------------------
(* render.py: the canvas operations of the four make_pdf_* builds *)

BuildOps ==
    {"make_pdf_products_two_sides", "make_pdf_tea_bank", "make_pdf_tea_box",
     "make_pdf_tips_two_sides"}

Step(k, max) == [k |-> k, max |-> max]

\* pdf_with_background: Canvas(...) and the drawImage of the background
PdfWithBackgroundStep == Step("pdf_with_background", 0)
\* c.drawImage(ImageReader(str(ASSET_..._BG)), 0, 0, w, h, mask="auto")
BackgroundStep == Step("background", 0)
\* draw_brand_ci
BrandStep == Step("brand", 0)
\* a fit_text* call of at most max lines and the draw_* call of its lines
LinesStep(max) == Step("lines", max)
\* c.line(...)
RuleStep == Step("rule", 0)
\* c.drawImage(ImageReader(io.BytesIO(qr_png)), ...)
QrStep == Step("qr", 0)
ShowPageStep == Step("showPage", 0)
SaveStep == Step("save", 0)

ProductsProgram ==
    << PdfWithBackgroundStep, BrandStep, LinesStep(2), LinesStep(1), ShowPageStep,
       BackgroundStep, BrandStep, LinesStep(2), LinesStep(1), SaveStep >>

TeaBankProgram ==
    << PdfWithBackgroundStep, BrandStep, LinesStep(1), LinesStep(2), RuleStep,
       LinesStep(2), RuleStep, LinesStep(1), SaveStep >>

TeaBoxProgram ==
    << PdfWithBackgroundStep, RuleStep, RuleStep, LinesStep(2), LinesStep(2),
       LinesStep(1), LinesStep(1), SaveStep >>

\* make_pdf_tips_two_sides without its c.showPage()
TipsProgramNoPageBreak ==
    << PdfWithBackgroundStep, LinesStep(2), LinesStep(3), QrStep,
       BackgroundStep, SaveStep >>

TipsProgram ==
    << PdfWithBackgroundStep, LinesStep(2), LinesStep(3), QrStep, ShowPageStep,
       BackgroundStep, SaveStep >>

Program(fn) ==
    CASE fn = "make_pdf_products_two_sides" -> ProductsProgram
      [] fn = "make_pdf_tea_bank" -> TeaBankProgram
      [] fn = "make_pdf_tea_box" -> TeaBoxProgram
      [] OTHER -> TipsProgram

Building == call.op \in BuildOps

\* the statement the build is about to execute
AtStep(k) ==
    /\ Building
    /\ call.step <= Len(Program(call.op))
    /\ Program(call.op)[call.step].k = k

Repeat(op, n) == [i \in 1..n |-> op]

\* the build executes its statement, issuing the canvas operations ops
Issue(ops) ==
    /\ call' = [call EXCEPT !.step = @ + 1, !.ops = @ \o ops]
    /\ UNCHANGED <<text, face, botVars>>

StartBuild ==
    /\ call = NoCall
    /\ \E fn \in BuildOps : call' = [op |-> fn, step |-> 1, ops |-> <<>>]
    /\ UNCHANGED <<text, face, botVars>>

PdfWithBackground ==
    /\ AtStep("pdf_with_background")
    /\ Issue(<<"background">>)

DrawBackground ==
    /\ AtStep("background")
    /\ Issue(<<"background">>)

\* draw_brand_ci: five drawString calls
DrawBrandCi ==
    /\ AtStep("brand")
    /\ Issue(Repeat("text", 5))

\* one drawString / drawCentredString / drawRightString per fitted line
DrawLines ==
    /\ AtStep("lines")
    /\ \E n \in 1..Program(call.op)[call.step].max : Issue(Repeat("text", n))

DrawRule ==
    /\ AtStep("rule")
    /\ Issue(<<"rule">>)

DrawQr ==
    /\ AtStep("qr")
    /\ Issue(<<"qr">>)

ShowPage ==
    /\ AtStep("showPage")
    /\ Issue(<<"showPage">>)

Save ==
    /\ AtStep("save")
    /\ Issue(<<"save">>)

Returned == Building /\ call.step > Len(Program(call.op))

Positions(ops, op) == {i \in 1..Len(ops) : ops[i] = op}

Draws == {"background", "text", "rule", "qr"}

\* the pages of the saved document: one per showPage, and one more when
\* something was drawn after the last showPage (Canvas.save closes that page)
PageCount(ops) ==
    LET breaks == Positions(ops, "showPage")
        open == \E i \in 1..Len(ops) :
                    /\ ops[i] \in Draws
                    /\ \A j \in breaks : j < i
    IN Cardinality(breaks) + (IF open THEN 1 ELSE 0)

-----------------------------------------------------------------------------
(* render.py: category_from_price, hours_word, normalize_sentence_case *)

\* "PREMIUM" stands for the Cyrillic top-tier label
category_from_price_strict(price) ==
    IF price < 20 THEN "A"
    ELSE IF price <= 35 THEN "A+"
    ELSE IF price <= 55 THEN "A++"
    ELSE "PREMIUM"

category_from_price(price) ==
    IF price <= 20 THEN "A"
    ELSE IF price <= 35 THEN "A+"
    ELSE IF price <= 55 THEN "A++"
    ELSE "PREMIUM"

\* the three word forms: "chas" (singular), "chasa" (paucal), "chasov" (plural)
hours_word_no_teens(n) ==
    LET n10 == Abs(n) % 10
    IN IF n10 = 1 THEN "chas"
       ELSE IF 2 <= n10 /\ n10 <= 4 THEN "chasa"
       ELSE "chasov"

hours_word(n) ==
    LET n100 == Abs(n) % 100
        n10 == Abs(n) % 10
    IN IF 11 <= n100 /\ n100 <= 14 THEN "chasov"
       ELSE IF n10 = 1 THEN "chas"
       ELSE IF 2 <= n10 /\ n10 <= 4 THEN "chasa"
       ELSE "chasov"

\* the Latin part of the class [A-Za-zА-Яа-яЁё]
LowerLetters ==
    <<"a", "b", "c", "d", "e", "f", "g", "h", "i", "j", "k", "l", "m",
      "n", "o", "p", "q", "r", "s", "t", "u", "v", "w", "x", "y", "z">>
UpperLetters ==
    <<"A", "B", "C", "D", "E", "F", "G", "H", "I", "J", "K", "L", "M",
      "N", "O", "P", "Q", "R", "S", "T", "U", "V", "W", "X", "Y", "Z">>

Range(f) == {f[i] : i \in DOMAIN f}

IsLetter(ch) == ch \in Range(LowerLetters) \cup Range(UpperLetters)

\* str.upper() of one character
Upper(ch) ==
    IF ch \in Range(LowerLetters)
    THEN UpperLetters[CHOOSE i \in DOMAIN LowerLetters : LowerLetters[i] = ch]
    ELSE ch

Terminators == {".", "!", "?"}

\* re.split(r"([.!?]+)", s): chunks at odd positions, terminator runs at even ones
RECURSIVE SplitSentences(_, _, _)
SplitSentences(s, part, parts) ==
    IF s = <<>>
    THEN \* a separator at the very end is followed by an empty chunk
         IF Len(parts) % 2 = 1 THEN Append(Append(parts, part), <<>>)
         ELSE Append(parts, part)
    ELSE LET is_term == Head(s) \in Terminators
         IN IF Len(parts) % 2 = 0
            THEN \* collecting a chunk
                 IF is_term THEN SplitSentences(Tail(s), <<Head(s)>>, Append(parts, part))
                 ELSE SplitSentences(Tail(s), Append(part, Head(s)), parts)
            ELSE \* collecting a terminator run
                 IF is_term THEN SplitSentences(Tail(s), Append(part, Head(s)), parts)
                 ELSE SplitSentences(Tail(s), <<Head(s)>>, Append(parts, part))

\* chunk[:idx] + chunk[idx].upper() + chunk[idx + 1:] at the first letter, if any
CapitalizeFirstLetter(chunk) ==
    LET letters == {i \in 1..Len(chunk) : IsLetter(chunk[i])}
    IN IF letters = {} THEN chunk
       ELSE LET idx == CHOOSE i \in letters : \A j \in letters : i <= j
            IN [chunk EXCEPT ![idx] = Upper(chunk[idx])]

\* `for i in range(0, len(parts), 2)`: out.append(chunk + punct)
RECURSIVE SentenceLoop(_, _, _)
SentenceLoop(parts, i, out) ==
    IF i > Len(parts) THEN out
    ELSE LET chunk == Strip(parts[i])
             punct == IF i + 1 <= Len(parts) THEN parts[i + 1] ELSE <<>>
         IN SentenceLoop(parts, i + 2, Append(out, CapitalizeFirstLetter(chunk) \o punct))

\* " ".join([x.strip() for x in out if x.strip()])
RECURSIVE JoinStripped(_, _)
JoinStripped(out, i) ==
    IF i > Len(out) THEN <<>>
    ELSE LET rest == JoinStripped(out, i + 1)
         IN IF Strip(out[i]) = <<>> THEN rest
            ELSE IF rest = <<>> THEN Strip(out[i])
            ELSE Strip(out[i]) \o <<" ">> \o rest

\* re.sub(r"\s+([.!?])", r"\1", res)
RECURSIVE DropSpaceBeforeTerminator(_)
DropSpaceBeforeTerminator(s) ==
    IF s = <<>> THEN s
    ELSE IF Head(s) \in Whitespace
         THEN LET rest == LStrip(s)
              IN IF rest # <<>> /\ Head(rest) \in Terminators
                 THEN DropSpaceBeforeTerminator(rest)
                 ELSE SubSeq(s, 1, Len(s) - Len(rest)) \o DropSpaceBeforeTerminator(rest)
         ELSE <<Head(s)>> \o DropSpaceBeforeTerminator(Tail(s))

\* normalize_sentence_case with the final re.sub left out
normalize_sentence_case_joined(txt) ==
    LET s == NormalizeSpaces(txt)
    IN IF s = <<>> THEN s
       ELSE Strip(JoinStripped(SentenceLoop(SplitSentences(s, <<>>, <<>>), 1, <<>>), 1))

normalize_sentence_case(txt) ==
    LET s == NormalizeSpaces(txt)
    IN IF s = <<>> THEN s
       ELSE Strip(DropSpaceBeforeTerminator(
                JoinStripped(SentenceLoop(SplitSentences(s, <<>>, <<>>), 1, <<>>), 1)))

-----------------------------------------------------------------------------
(* Calls of the utilities, and the label texts that depend on them *)

BaseNamePool == {<<"a">>, <<"b">>, <<"a", "_", "2">>}
NameLists == SeqsUpTo(BaseNamePool, MaxNames)

TierPrices == 0..MaxTierPrice \cup {MaxPrice}

SentenceChars == {"a", "B", " ", ".", "!"}
ExampleSentence ==
    <<"h", "e", "l", "l", "o", " ", "w", "o", "r", "l", "d", ".", " ", "b", "y", "e">>
Sentences == SeqsUpTo(SentenceChars, MaxSentenceLen) \cup {ExampleSentence}

\* the characters of a tier label
CategoryChars(cat) ==
    CASE cat = "A" -> <<"A">>
      [] cat = "A+" -> <<"A", "+">>
      [] cat = "A++" -> <<"A", "+", "+">>
      [] OTHER -> <<"P", "R", "E", "M", "I", "U", "M">>

\* the characters of a word form (three, four and five letters)
WordChars(word) ==
    CASE word = "chas" -> <<"c", "a", "s">>
      [] word = "chasa" -> <<"c", "a", "s", "a">>
      [] OTHER -> <<"c", "a", "s", "o", "v">>

\* str(n) of a non-negative integer
RECURSIVE DecimalChars(_)
DecimalChars(n) ==
    IF n < 10 THEN <<ToString(n)>>
    ELSE Append(DecimalChars(n \div 10), ToString(n % 10))

\* f"{hours} {hours_word(hours)}"
Phrase(hours) == DecimalChars(hours) \o <<" ">> \o WordChars(hours_word(hours))

\* page widths of the templates, wide enough for their labels at the smallest size
BankPageWidths == {600, 1654}
BoxPageWidths == {1900, 2200}
ProductsPageWidths == {800, 1400}

PhraseHours == 0..MaxPhraseHours \cup {100, 101, 111, 112, MaxHours}

CallUniqueNames ==
    /\ call = NoCall
    /\ \E names \in NameLists :
          call' = [op |-> "unique_names", names |-> names, result |-> unique_names(names)]
    /\ UNCHANGED <<text, face, botVars>>

CallCategoryFromPrice ==
    /\ call = NoCall
    /\ \E price \in TierPrices :
          call' = [op |-> "category_from_price", price |-> price,
                   result |-> category_from_price(price)]
    /\ UNCHANGED <<text, face, botVars>>

CallHoursWord ==
    /\ call = NoCall
    /\ \E n \in 0..MaxHours :
          call' = [op |-> "hours_word", n |-> n, result |-> hours_word(n)]
    /\ UNCHANGED <<text, face, botVars>>

CallNormalizeSentenceCase ==
    /\ call = NoCall
    /\ \E t \in Sentences :
          call' = [op |-> "normalize_sentence_case", text |-> t,
                   result |-> normalize_sentence_case(t)]
    /\ UNCHANGED <<text, face, botVars>>

\* make_pdf_tea_bank and make_pdf_tea_box of one record: the tier texts they fit
\* and draw (x1, x2 = 457, 1524 and pad = 60 give the box's right column)
CallTeaTierLabels ==
    /\ call = NoCall
    /\ \E price \in TierPrices, w_bank \in BankPageWidths, w_box \in BoxPageWidths :
          call' = [op |-> "tea_tier_labels", price |-> price,
                   bank |-> fit_text_in_box(CategoryChars(category_from_price(price)),
                                            85, 18, w_bank - 220, 1, 120, 20, FALSE),
                   box |-> fit_text(CategoryChars(category_from_price(price)),
                                    36, 18, (w_box - 60) - (1524 + 60), 1, TRUE)]
    /\ UNCHANGED <<text, face, botVars>>

\* make_pdf_products_two_sides: the shelf-life phrase fitted and drawn on the back
CallShelfLifePhrase ==
    /\ call = NoCall
    /\ \E hours \in PhraseHours, w \in ProductsPageWidths :
          call' = [op |-> "shelf_life_phrase", hours |-> hours,
                   drawn |-> fit_text(Phrase(hours), 60, 28, w - 200, 1, TRUE)]
    /\ UNCHANGED <<text, face, botVars>>

InitRender ==
    /\ text = <<>>
    /\ call = NoCall
    /\ face = ModelFace
    /\ BotIdle

NextRender ==
    \/ CallUniqueNames
    \/ CallCategoryFromPrice
    \/ CallHoursWord
    \/ CallNormalizeSentenceCase
    \/ CallTeaTierLabels
    \/ CallShelfLifePhrase
    \/ StartBuild
    \/ PdfWithBackground
    \/ DrawBackground
    \/ DrawBrandCi
    \/ DrawLines
    \/ DrawRule
    \/ DrawQr
    \/ ShowPage
    \/ Save

SpecRender == InitRender /\ [][NextRender]_vars

-----------------------------------------------------------------------------
(* Page structure *)

TwoSided == {"make_pdf_products_two_sides", "make_pdf_tips_two_sides"}

PageBreaksOf(fn) == IF fn \in TwoSided THEN 1 ELSE 0

\* the background of the page that operation i is drawn on was drawn before it
BackgroundFirst(ops, i) ==
    \E j \in 1..(i - 1) :
        /\ ops[j] = "background"
        /\ \A k \in j..i : ops[k] # "showPage"

\* C11: a two-sided build issues exactly one showPage and then exactly one
\* save and yields two pages, a tea build issues no showPage and exactly one
\* save and yields one page; save is the last canvas operation of every
\* build and nothing is drawn after it; on each page the background is drawn
\* before any text.
C11_PageStructure ==
    Building =>
        /\ \A i \in Positions(call.ops, "save") : i = Len(call.ops)
        /\ Cardinality(Positions(call.ops, "showPage")) <= PageBreaksOf(call.op)
        /\ \A i \in 1..Len(call.ops) :
              call.ops[i] \in Draws \ {"background"} => BackgroundFirst(call.ops, i)
        /\ Returned =>
              /\ Cardinality(Positions(call.ops, "showPage")) = PageBreaksOf(call.op)
              /\ Positions(call.ops, "save") = {Len(call.ops)}
              /\ PageCount(call.ops) = PageBreaksOf(call.op) + 1

\* a finished tips build: text and QR on the first page, the back page's
\* background alone on the second
C11_Witness ==
    /\ Returned
    /\ call.op = "make_pdf_tips_two_sides"
    /\ PageCount(call.ops) = 2
    /\ "qr" \in Range(call.ops)

-----------------------------------------------------------------------------
(* File names *)

\* how many of the first i names equal names[i]
OccurrenceNo(names, i) == Cardinality({j \in 1..i : names[j] = names[i]})

\* C12: unique_names keeps length and order, returns the first occurrence of
\* a base name unchanged and its k-th occurrence (k >= 2) as the name
\* followed by "_k".
C12_UniqueNamesSuffix ==
    call.op = "unique_names" =>
        /\ Len(call.result) = Len(call.names)
        /\ \A i \in 1..Len(call.names) :
              call.result[i] =
                 IF OccurrenceNo(call.names, i) = 1 THEN call.names[i]
                 ELSE call.names[i] \o <<"_", ToString(OccurrenceNo(call.names, i))>>

\* ["a", "a", "a"] gives ["a", "a_2", "a_3"]
C12_Witness ==
    /\ call.op = "unique_names"
    /\ call.names = <<<<"a">>, <<"a">>, <<"a">>>>
    /\ call.result = <<<<"a">>, <<"a", "_", "2">>, <<"a", "_", "3">>>>

-----------------------------------------------------------------------------
(* Price tiers and shelf-life wording *)

TierOf(price) ==
    CHOOSE t \in {"A", "A+", "A++", "PREMIUM"} :
        /\ t = "A" <=> price <= 20
        /\ t = "A+" <=> (21 <= price /\ price <= 35)
        /\ t = "A++" <=> (36 <= price /\ price <= 55)
        /\ t = "PREMIUM" <=> price >= 56

\* C13: for every price of the validated range category_from_price returns
\* "A" iff price <= 20, "A+" iff 21..35, "A++" iff 36..55 and the top tier iff
\* price >= 56, and the bank and the box label of one record draw that same
\* tier.
C13_PriceTiers ==
    /\ call.op = "category_from_price" =>
          /\ call.result = "A" <=> call.price <= 20
          /\ call.result = "A+" <=> (21 <= call.price /\ call.price <= 35)
          /\ call.result = "A++" <=> (36 <= call.price /\ call.price <= 55)
          /\ call.result = "PREMIUM" <=> call.price >= 56
    /\ call.op = "tea_tier_labels" =>
          /\ call.bank.lines = <<CategoryChars(TierOf(call.price))>>
          /\ call.box.lines = call.bank.lines

\* price 55, the upper boundary of "A++", drawn on both labels at different sizes
C13_Witness ==
    /\ call.op = "tea_tier_labels"
    /\ call.price = 55
    /\ call.bank.lines = <<<<"A", "+", "+">>>>
    /\ call.box.lines = call.bank.lines
    /\ call.bank.size # call.box.size

FormOf(n) ==
    LET h == n % 100
        t == n % 10
    IN IF 11 <= h /\ h <= 14 THEN "chasov"
       ELSE IF t = 1 THEN "chas"
       ELSE IF 2 <= t /\ t <= 4 THEN "chasa"
       ELSE "chasov"

\* C14: for every n in 0..8760 hours_word returns the plural form when
\* 11 <= n mod 100 <= 14, else the singular when n mod 10 = 1, else the paucal
\* when 2 <= n mod 10 <= 4, else the plural (1, 21, 101 singular; 2 paucal;
\* 0, 5, 11, 100 plural), and the back of a product label draws exactly the
\* hours, a space and that word.
C14_HoursWord ==
    /\ call.op = "hours_word" =>
          /\ call.result = FormOf(call.n)
          /\ call.n \in {1, 21, 101} => call.result = "chas"
          /\ call.n = 2 => call.result = "chasa"
          /\ call.n \in {0, 5, 11, 100} => call.result = "chasov"
    /\ call.op = "shelf_life_phrase" =>
          call.drawn.lines =
             <<DecimalChars(call.hours) \o <<" ">> \o WordChars(FormOf(call.hours))>>

\* 8760 hours printed with the plural form at a size below the largest
C14_Witness ==
    /\ call.op = "shelf_life_phrase"
    /\ call.hours = MaxHours
    /\ call.drawn.lines = <<<<"8", "7", "6", "0", " ", "c", "a", "s", "o", "v">>>>
    /\ call.drawn.size < 60

-----------------------------------------------------------------------------
(* Sentence case *)

NotSpace(ch) == ch \notin Whitespace

\* the positions of the characters of s that are not whitespace, in order
RECURSIVE InkPositions(_, _)
InkPositions(s, i) ==
    IF i > Len(s) THEN <<>>
    ELSE IF NotSpace(s[i]) THEN <<i>> \o InkPositions(s, i + 1)
    ELSE InkPositions(s, i + 1)

\* t[i] is a letter with no letter between it and the previous terminator
\* (or the start of the text)
FirstLetterOfChunk(t, i) ==
    /\ IsLetter(t[i])
    /\ \A j \in 1..(i - 1) :
          IsLetter(t[j]) => \E k \in (j + 1)..(i - 1) : t[k] \in Terminators

SentenceCased(t) == [i \in 1..Len(t) |-> IF FirstLetterOfChunk(t, i) THEN Upper(t[i]) ELSE t[i]]

\* C15: normalize_sentence_case keeps every character that is not whitespace,
\* in order and unchanged except that the first letter of every chunk between
\* terminator runs is upper-cased; the result has single spaces only, none at
\* its ends and none immediately before a terminator, and two characters the
\* text separated by whitespace stay separated by one space unless the
\* second is a terminator; "hello world. bye" gives "Hello world. Bye".
C15_SentenceCase ==
    call.op = "normalize_sentence_case" =>
        LET t == call.text
            r == call.result
            pt == InkPositions(t, 1)
            pr == InkPositions(r, 1)
        IN /\ SelectSeq(r, NotSpace) = SelectSeq(SentenceCased(t), NotSpace)
           /\ r # <<>> => NotSpace(r[1]) /\ NotSpace(r[Len(r)])
           /\ \A i \in 1..(Len(r) - 1) :
                 r[i] \in Whitespace => r[i + 1] \notin Whitespace \cup Terminators
           /\ \A k \in 1..(Len(pt) - 1) :
                 (pt[k + 1] > pt[k] + 1 /\ t[pt[k + 1]] \notin Terminators)
                    => pr[k + 1] = pr[k] + 2
           /\ t = ExampleSentence =>
                 r = <<"H", "e", "l", "l", "o", " ", "w", "o", "r", "l", "d", ".", " ",
                       "B", "y", "e">>

\* "a !a": the space before the terminator is dropped, the letter after it is
\* upper-cased and set off by a space
C15_Witness ==
    /\ call.op = "normalize_sentence_case"
    /\ call.text = <<"a", " ", "!", "a">>
    /\ call.result = <<"A", "!", " ", "A">>

-----------------------------------------------------------------------------
(* handlers.py: the tips conversation *)

MaxNameChars == 40
MaxGoalChars == 80
MaxLinkChars == 300

Letters(n) == Repeat("a", n)

\* data.get("tips_name", "Имя") and data.get("tips_goal", "Цель"): defaults of
\* three and four letters
DefaultName == Repeat("x", 3)
DefaultGoal == Repeat("x", 4)

\* the seven characters of "Чаевые_"
TipsPrefix == Repeat("x", 6) \o <<"_">>

Http == <<"h", "t", "t", "p", ":", "/", "/">>
Https == <<"h", "t", "t", "p", "s", ":", "/", "/">>
HttpUpper == <<"H", "T", "T", "P", ":", "/", "/">>
Ftp == <<"f", "t", "p", ":", "/", "/">>

\* str.lower() of one character
Lower(ch) ==
    IF ch \in Range(UpperLetters)
    THEN LowerLetters[CHOOSE i \in DOMAIN UpperLetters : UpperLetters[i] = ch]
    ELSE ch

\* re.match(r"^https?://", link) without flags=re.I
MatchesHttpExactCase(link) == Take(link, 7) = Http \/ Take(link, 8) = Https

\* re.match(r"^https?://", link, flags=re.I)
MatchesHttp(link) ==
    LET l == [i \in 1..Len(link) |-> Lower(link[i])]
    IN Take(l, 7) = Http \/ Take(l, 8) = Https

TextMsg(t) == [doc |-> "none", corrupt |-> FALSE, rows |-> <<>>, text |-> t]

\* message texts offered to the three steps (a message without text reads as "")
NameTexts ==
    {<<>>, <<" ">>, Letters(1), <<" ">> \o Letters(MaxNameChars) \o <<" ">>,
     Letters(MaxNameChars + 1)}
GoalTexts == {<<>>, Letters(MaxGoalChars), Letters(MaxGoalChars + 1)}
LinkTexts ==
    {<<>>, Http \o Letters(1), <<" ">> \o Https \o Letters(MaxLinkChars - 8),
     Https \o Letters(MaxLinkChars - 7), HttpUpper \o Letters(1), Ftp \o Letters(1),
     Letters(1) \o Http}

\* what make_pdf_tips_two_sides returns: the card built from one record
make_pdf_tips_two_sides(record) == [fn |-> "make_pdf_tips_two_sides", args |-> record]

\* data.get(key, default)
Get(d, key, default) == IF key \in DOMAIN d THEN d[key] ELSE default

\* a callback handler that only moves the conversation to a step
TipsStep(kind, state, clear) ==
    /\ Serving
    /\ IF ~allowed
       THEN /\ event' = Handled(kind, NoMsg, "denied", "none", <<>>)
            /\ UNCHANGED <<fsm, data>>
       ELSE /\ fsm' = state
            /\ data' = IF clear THEN NoData ELSE data
            /\ event' = Handled(kind, NoMsg, "prompt", "none", <<>>)
    /\ UNCHANGED <<pc, files, token, fonts, allowed, refused, layoutVars, access>>

cb_tips == TipsStep("cb_tips", "TipsFSM:name", TRUE)
tips_back_name == TipsStep("tips_back_name", "TipsFSM:name", FALSE)
tips_back_goal == TipsStep("tips_back_goal", "TipsFSM:goal", FALSE)
tips_back_link == TipsStep("tips_back_link", "TipsFSM:link", FALSE)

\* a message handler of one step: rejects the text (the step stays), or keeps it
TipsText(kind, key, texts, limit, next_state) ==
    /\ Serving
    /\ \E t \in texts :
         LET msg == TextMsg(t)
             txt == Strip(t)
         IN IF ~allowed
            THEN /\ event' = Handled(kind, msg, "denied", "none", <<>>)
                 /\ UNCHANGED <<fsm, data>>
            ELSE IF txt = <<>> \/ Len(txt) > limit
            THEN /\ event' = Handled(kind, msg, "retry", "none", <<>>)
                 /\ UNCHANGED <<fsm, data>>
            ELSE /\ data' = [k \in DOMAIN data \cup {key} |-> IF k = key THEN txt ELSE data[k]]
                 /\ fsm' = next_state
                 /\ event' = Handled(kind, msg, "prompt", "none", <<>>)
    /\ UNCHANGED <<pc, files, token, fonts, allowed, refused, layoutVars, access>>

tips_name ==
    /\ fsm = "TipsFSM:name"
    /\ TipsText("tips_name", "tips_name", NameTexts, MaxNameChars, "TipsFSM:goal")

tips_goal ==
    /\ fsm = "TipsFSM:goal"
    /\ TipsText("tips_goal", "tips_goal", GoalTexts, MaxGoalChars, "TipsFSM:link")

\* the link check of tips_link without the length limit
LinkAcceptedAnyLength(link) ==
    /\ link # <<>>
    /\ MatchesHttp(link)

\* the link check of tips_link
LinkAccepted(link) ==
    /\ link # <<>>
    /\ Len(link) <= MaxLinkChars
    /\ MatchesHttp(link)

tips_link ==
    /\ Serving
    /\ fsm = "TipsFSM:link"
    /\ \E t \in LinkTexts :
         LET msg == TextMsg(t)
             link == Strip(t)
             person_name == Get(data, "tips_name", DefaultName)
             goal == Get(data, "tips_goal", DefaultGoal)
             pdf == make_pdf_tips_two_sides(<<person_name, goal, link>>)
             filename == safe_filename(TipsPrefix \o person_name)
         IN IF ~allowed
            THEN /\ event' = Handled("tips_link", msg, "denied", "none", <<>>)
                 /\ UNCHANGED <<fsm, data>>
            ELSE IF ~LinkAccepted(link)
            THEN /\ event' = Handled("tips_link", msg, "retry", "none", <<>>)
                 /\ UNCHANGED <<fsm, data>>
            ELSE /\ event' = Handled("tips_link", msg, "sent", "none",
                                     <<ZipEntry(RootFolder, filename, pdf)>>)
                 /\ fsm' = "None"
                 /\ data' = NoData
    /\ UNCHANGED <<pc, files, token, fonts, allowed, refused, layoutVars, access>>

-----------------------------------------------------------------------------
(* handlers.py: the admin commands; access.py: the allowed list.  The model
   follows one user who is not an admin (allowed is that user's membership of
   allowed_ids) and one admin; a command names the user, the admin, or
   carries no numeric id. *)

Senders == {"admin", "user"}
Targets == {"user", "admin", "bad"}

is_admin(sender) == sender = "admin"

AdminHandled(kind, sender, target, outcome) ==
    [kind |-> kind, msg |-> NoMsg, outcome |-> outcome, error |-> "none", archive |-> <<>>,
     sender |-> sender, target |-> target]

\* AccessManager.add_user: an admin id is never put on the allowed list (only
\* the followed user's membership is state)
add_user(target) == IF target = "user" THEN TRUE ELSE allowed

\* AccessManager.del_user
del_user(target) == IF target = "user" THEN FALSE ELSE allowed

\* an admin command that changes the allowed list, open to every sender
AdminChangeUngated(kind, done, adds) ==
    /\ Serving
    /\ \E sender \in Senders, target \in Targets :
         IF target = "bad"
         THEN /\ event' = AdminHandled(kind, sender, target, "usage")
              /\ UNCHANGED allowed
         ELSE /\ allowed' = IF adds THEN add_user(target) ELSE del_user(target)
              /\ event' = AdminHandled(kind, sender, target, done)
    /\ UNCHANGED <<pc, files, token, fonts, fsm, refused, data, layoutVars, access>>

\* an admin command that changes the allowed list
AdminChange(kind, done, adds) ==
    /\ Serving
    /\ \E sender \in Senders, target \in Targets :
         IF ~is_admin(sender)
         THEN /\ event' = AdminHandled(kind, sender, target, "denied")
              /\ UNCHANGED allowed
         ELSE IF target = "bad"
         THEN /\ event' = AdminHandled(kind, sender, target, "usage")
              /\ UNCHANGED allowed
         ELSE /\ allowed' = IF adds THEN add_user(target) ELSE del_user(target)
              /\ event' = AdminHandled(kind, sender, target, done)
    /\ UNCHANGED <<pc, files, token, fonts, fsm, refused, data, layoutVars, access>>

admin_add_user == AdminChange("admin_add_user", "added", TRUE)
admin_del_user == AdminChange("admin_del_user", "removed", FALSE)

admin_list_users ==
    /\ Serving
    /\ \E sender \in Senders :
         IF ~is_admin(sender)
         THEN event' = AdminHandled("admin_list_users", sender, "none", "denied")
         ELSE event' = AdminHandled("admin_list_users", sender, "none",
                                    IF allowed THEN "listed_user" ELSE "listed_empty")
    /\ UNCHANGED <<pc, files, token, fonts, allowed, fsm, refused, data, layoutVars, access>>

-----------------------------------------------------------------------------
(* The running bot: menu, uploads, tips conversation and admin commands *)

SampleTeaUploads ==
    OtherMessages \cup
    {Workbook(<<<<StrCell(<<"a">>), StrCell(<<"a">>), FloatCell(25)>>>>),
     Workbook(<<<<StrCell(<<"a">>), StrCell(<<"a">>), StrCell(<<"x">>)>>>>)}
SampleProductUploads ==
    OtherMessages \cup
    {Workbook(<<<<StrCell(<<"a">>), IntCell(MaxPrice), IntCell(MaxHours)>>>>),
     Workbook(<<<<StrCell(<<"a">>), NoneCell, IntCell(MaxHours)>>>>),
     Workbook(<<<<StrCell(<<"a">>), IntCell(MaxPrice), IntCell(MaxHours)>>,
                <<StrCell(<<"a">>), IntCell(MaxPrice), IntCell(MaxHours)>>,
                <<StrCell(<<"a", "_", "2">>), IntCell(MaxPrice), IntCell(MaxHours)>>>>)}

tea_receive_sample == TeaReceiveXlsx(SampleTeaUploads)
products_receive_sample == ProductsReceiveXlsx(SampleProductUploads)

InitChat ==
    /\ pc = "polling"
    /\ files = AllFiles
    /\ token = TRUE
    /\ fonts = register_unbounded_fonts(AllFiles).fonts
    /\ allowed \in BOOLEAN
    /\ fsm = "None"
    /\ event = NoEvent
    /\ refused = FALSE
    /\ data = NoData
    /\ access = NoAccess
    /\ LayoutIdle

NextChat ==
    \/ cmd_start
    \/ cb_cancel
    \/ cb_tea
    \/ tea_receive_sample
    \/ cb_products
    \/ products_receive_sample
    \/ cb_tips
    \/ tips_back_name
    \/ tips_back_goal
    \/ tips_back_link
    \/ tips_name
    \/ tips_goal
    \/ tips_link
    \/ admin_add_user
    \/ admin_del_user
    \/ admin_list_users
    \/ HandlerReturns

SpecChat == InitChat /\ [][NextChat]_vars

-----------------------------------------------------------------------------
(* C16: limits of the tips record *)

\* the records handed to make_pdf_tips_two_sides by the event being handled
TipsRecords ==
    {event.archive[i].pdf.args :
        i \in {j \in DOMAIN event.archive :
                 event.archive[j].pdf.fn = "make_pdf_tips_two_sides"}}

NameAndGoalWithinLimits(record) ==
    /\ Len(record[1]) \in 1..MaxNameChars
    /\ Len(record[2]) \in 1..MaxGoalChars
    /\ Len(record[3]) <= MaxLinkChars

\* C16 as stated: every tips card is built from a name of 1 to 40 characters, a
\* goal of 1 to 80 characters and a link of at most 300 characters that matches
\* ^https?:// as written, in lower case.
C16_Original_ExactCaseScheme ==
    \A record \in TipsRecords :
        NameAndGoalWithinLimits(record) /\ MatchesHttpExactCase(record[3])

\* C16: whatever messages and button callbacks came before, every tips card is
\* built from a name of 1 to 40 characters, a goal of 1 to 80 characters and a
\* link of at most 300 characters that matches ^https?:// with letter case
\* ignored.
C16_TipsRecordLimits ==
    \A record \in TipsRecords :
        NameAndGoalWithinLimits(record) /\ MatchesHttp(record[3])

\* a card is built from the longest name, goal and link that are accepted
C16_Witness ==
    /\ event.kind = "tips_link"
    /\ \E record \in TipsRecords :
         /\ Len(record[1]) = MaxNameChars
         /\ Len(record[2]) = MaxGoalChars
         /\ Len(record[3]) = MaxLinkChars

\* a card is built from the default name and goal, after the link step was
\* reached by its back button with no name or goal stored
C16_DefaultsReached ==
    \E record \in TipsRecords : record[1] = DefaultName /\ record[2] = DefaultGoal

-----------------------------------------------------------------------------
(* C20: authorization gating *)

AdminCommands == {"admin_add_user", "admin_del_user", "admin_list_users"}
AdminEffects == {"added", "removed", "listed_user", "listed_empty", "usage"}

\* the step in which a handler takes an event
Handles == event = NoEvent /\ event' # NoEvent

\* the followed user is refused: nothing kept, nothing sent, nothing built
Refused ==
    /\ fsm' = fsm
    /\ data' = data
    /\ allowed' = allowed
    /\ event'.outcome = "denied"
    /\ event'.archive = <<>>

\* C20: in every step that handles an event, (1) an event of the user while
\* is_allowed is false for that user changes neither the conversation state nor
\* the stored data, sends nothing and builds nothing; (2) the allowed list
\* changes, and add/del/list commands answer with their effect, only when the
\* sender is an admin, and a user who sends one is refused; so a user removed
\* in the middle of a conversation is refused at the next step.
C20_AuthorizationGate ==
    [][Handles =>
         /\ (event'.sender = "user" /\ ~allowed) => Refused
         /\ (allowed' # allowed \/ event'.outcome \in AdminEffects)
               => is_admin(event'.sender)
         /\ (event'.kind \in AdminCommands /\ ~is_admin(event'.sender)) => Refused]_vars

\* a name was stored, the user was removed before sending the goal, and the
\* goal message is refused with the conversation left where it was
C20_Witness ==
    /\ "tips_name" \in DOMAIN data
    /\ fsm = "TipsFSM:goal"
    /\ ~allowed
    /\ event.kind = "tips_goal"
    /\ event.sender = "user"
    /\ event.outcome = "denied"

-----------------------------------------------------------------------------
(* C19: distinct names in one archive *)

PairwiseDistinct(s) == \A i, j \in DOMAIN s : i # j => s[i] # s[j]

\* C19: the names returned by unique_names are pairwise distinct, also for
\* lists that already contain a name of the form "x_2".
C19_NamesDistinct == call.op = "unique_names" => PairwiseDistinct(call.result)

\* C19, in the archive: no two entries of one archive share folder and name.
C19_ArchivePathsDistinct ==
    PairwiseDistinct([i \in DOMAIN event.archive |->
                         <<event.archive[i].folder, event.archive[i].name>>])

-----------------------------------------------------------------------------
(* render.py: the tea type of the tea bank label, anchored above the rule *)

MaxTeaTypeLen == 4

\* tea types as load_rows_tea hands them over: stripped and not empty
TeaTypes == {t \in TextsUpTo(MaxTeaTypeLen) : t # <<>> /\ Strip(t) = t}

\* font faces: ascent and descent per unit of size, in twentieths.  The last
\* one is taller than twice its size.
Faces ==
    {ModelFace, [ascent |-> 30, descent |-> 10], [ascent |-> 40, descent |-> 0],
     [ascent |-> 20, descent |-> 20], [ascent |-> 400, descent |-> 100]}

\* the baselines drawn when the first line, not the last, is put on the anchor
draw_multiline_from_anchor(lines, font_size, last_baseline_y, line_height) ==
    [i \in 1..Len(lines) |-> last_baseline_y - (i - 1) * (font_size * line_height)]

\* the baselines of the drawCentredString calls of draw_multiline_above_line
draw_multiline_above_line(lines, font_size, last_baseline_y, line_height) ==
    LET first_baseline == last_baseline_y + (Len(lines) - 1) * (font_size * line_height)
    IN [i \in 1..Len(lines) |-> first_baseline - (i - 1) * (font_size * line_height)]

\* make_pdf_tea_bank, lines 556-572: fit_text_above_line
FitTeaType ==
    /\ call = NoCall
    /\ \E w \in BankPageWidths :
          call' = [op |-> "tea_bank_type", step |-> "fitted", w |-> w,
                   fit |-> fit_text_above_line(text, 180, 34, w - 240, 2, 1425, 855, 36,
                                               21, FALSE),
                   baselines |-> <<>>]
    /\ UNCHANGED <<text, face, botVars>>

\* make_pdf_tea_bank, line 573: draw_multiline_above_line
DrawTeaType ==
    /\ call.op = "tea_bank_type"
    /\ call.step = "fitted"
    /\ call' = [call EXCEPT !.step = "drawn",
                            !.baselines = draw_multiline_above_line(
                                call.fit.lines, call.fit.size, call.fit.last_baseline, 21)]
    /\ UNCHANGED <<text, face, botVars>>

InitTeaBank ==
    /\ text \in TeaTypes
    /\ face \in Faces
    /\ call = NoCall
    /\ BotIdle

NextTeaBank == FitTeaType \/ DrawTeaType

SpecTeaBank == InitTeaBank /\ [][NextTeaBank]_vars

-----------------------------------------------------------------------------
(* C17: the tea type never reaches the rule *)

\* ascent + descent at any size is at most twice that size
FaceWithinTwiceSize == face.ascent + face.descent <= 2 * 20

TeaTypeDrawn == call.op = "tea_bank_type" /\ call.step = "drawn"

\* C17: on the tea bank label, for a font whose ascent plus descent is at most
\* twice the size, the last drawn line of the tea type sits on the returned
\* last baseline, its lowest glyph edge is at or above 855 + 36, the first
\* line's highest glyph edge is at or below 1425, and the clamp of the fallback
\* is not taken (size within 34..180, at most 2 lines).
C17_TeaTypeAboveRule ==
    (TeaTypeDrawn /\ FaceWithinTwiceSize) =>
        LET r == call.fit
            n == Len(r.lines)
        IN /\ r.tag = "ok"
           /\ r.path # "clamped"
           /\ r.size \in 34..180
           /\ n \in 1..2
           /\ Len(call.baselines) = n
           /\ call.baselines[n] = r.last_baseline
           /\ call.baselines[n] - Abs(getDescent(r.size)) >= 20 * (855 + 36)
           /\ call.baselines[1] + getAscent(r.size) <= 20 * 1425

\* two lines whose size was lowered to 175 by the height alone, with a face
\* exactly twice its size tall
C17_Witness ==
    /\ TeaTypeDrawn
    /\ face.ascent + face.descent = 2 * 20
    /\ Len(call.fit.lines) = 2
    /\ call.fit.size = 175
    /\ call.fit.path = "scan"

\* a word too wide at every size is drawn on one line at size 34
C17_FallbackReached ==
    /\ TeaTypeDrawn
    /\ FaceWithinTwiceSize
    /\ call.fit.path = "fallback"

\* with a face taller than twice its size the clamp is taken
C17_TallFaceClamped ==
    /\ TeaTypeDrawn
    /\ ~FaceWithinTwiceSize
    /\ call.fit.path = "clamped"

-----------------------------------------------------------------------------
(* render.py: the front page of the tips card.  Heights are in twentieths of
   a point (size * line_height), centres, edges and baselines in fortieths,
   so that the halves of the source are whole numbers. *)

MaxTipsNameLen == 3
MaxTipsGoalLen == 5

\* names and goals as tips_name / tips_goal store them: stripped, not empty
TipsNames == {t \in TextsUpTo(MaxTipsNameLen) : t # <<>> /\ Strip(t) = t}
TipsGoals ==
    {t \in TextsUpTo(MaxTipsGoalLen) : t # <<>> /\ Strip(t) = t /\ "W" \notin Range(t)}

TipsPageWidths == {250, 700}

\* gap = 20, 14 when either block has two lines or more, 10 when both have
TipsGap(lines_n, lines_g) ==
    IF Len(lines_n) >= 2 /\ Len(lines_g) >= 2 THEN 10
    ELSE IF Len(lines_n) >= 2 \/ Len(lines_g) >= 2 THEN 14
    ELSE 20

\* block_h = font_size * line_height * len(lines), in twentieths
BlockHeight(size, line_height, lines) == size * line_height * Len(lines)

\* the shift that keeps the goal's bottom edge at safe_goal_bottom = 330
TipsShift(goal_center_y, goal_h) ==
    IF goal_center_y - goal_h < 40 * 330 THEN 40 * 330 - (goal_center_y - goal_h) ELSE 0

\* name_center_y left where it was when the goal is shifted
NameCenterUnshifted(name_center_y, shift) == name_center_y

\* name_center_y += shift
NameCenterShifted(name_center_y, shift) == name_center_y + shift

\* the baselines of the drawCentredString calls of draw_centered_multiline
draw_centered_multiline(lines, font_size, center_y, line_height) ==
    LET block_h == BlockHeight(font_size, line_height, lines)
        y == center_y + block_h - 40 * font_size
    IN [i \in 1..Len(lines) |-> y - (i - 1) * (2 * font_size * line_height)]

\* make_pdf_tips_two_sides, lines 702-746: the two fits and the placement
PlaceTipsFront ==
    /\ call = NoCall
    /\ \E person_name \in TipsNames, goal \in TipsGoals, w \in TipsPageWidths :
          LET fit_n == fit_text(person_name, 86, 28, w - 120, 2, FALSE)
              fit_g == fit_text(goal, 48, 16, w - 140, 3, FALSE)
              gap == TipsGap(fit_n.lines, fit_g.lines)
              name_h == BlockHeight(fit_n.size, 21, fit_n.lines)
              goal_h == BlockHeight(fit_g.size, 23, fit_g.lines)
              name_center_y == 40 * 505 + (goal_h + 20 * gap)
              goal_center_y == 40 * 505 - (name_h + 20 * gap)
              shift == TipsShift(goal_center_y, goal_h)
          IN call' = [op |-> "tips_front", step |-> "placed", w |-> w,
                      person_name |-> person_name, goal |-> goal,
                      name |-> fit_n, goal_fit |-> fit_g, gap |-> gap, shift |-> shift,
                      name_center_y |-> NameCenterShifted(name_center_y, shift),
                      goal_center_y |-> goal_center_y + shift,
                      name_baselines |-> <<>>, goal_baselines |-> <<>>]
    /\ UNCHANGED <<text, face, botVars>>

\* make_pdf_tips_two_sides, lines 748-749: the two draw_centered_multiline calls
DrawTipsFront ==
    /\ call.op = "tips_front"
    /\ call.step = "placed"
    /\ call' = [call EXCEPT
                  !.step = "drawn",
                  !.name_baselines = draw_centered_multiline(
                      call.name.lines, call.name.size, call.name_center_y, 21),
                  !.goal_baselines = draw_centered_multiline(
                      call.goal_fit.lines, call.goal_fit.size, call.goal_center_y, 23)]
    /\ UNCHANGED <<text, face, botVars>>

InitTips ==
    /\ text = <<>>
    /\ call = NoCall
    /\ face = ModelFace
    /\ BotIdle

NextTips == PlaceTipsFront \/ DrawTipsFront

SpecTips == InitTips /\ [][NextTips]_vars

-----------------------------------------------------------------------------
(* C18: name and goal on the tips front page *)

TipsDrawn == call.op = "tips_front" /\ call.step = "drawn"

NameHeight == BlockHeight(call.name.size, 21, call.name.lines)
GoalHeight == BlockHeight(call.goal_fit.size, 23, call.goal_fit.lines)
NameBottom == call.name_center_y - NameHeight
GoalTop == call.goal_center_y + GoalHeight
GoalBottom == call.goal_center_y - GoalHeight

\* C18: on the tips front page the fitted name has 1..2 lines at size 28..86
\* and the goal 1..3 lines at size 16..48; with each block spanning
\* [center - h/2, center + h/2], the name block's bottom edge lies exactly gap
\* above the goal block's top edge, gap is 10, 14 or 20, the goal block's
\* bottom edge is at or above 330, and both centres are moved by the same
\* shift from their places around 505.
C18_TipsBlocks ==
    TipsDrawn =>
        /\ Len(call.name.lines) \in 1..2 /\ call.name.size \in 28..86
        /\ Len(call.goal_fit.lines) \in 1..3 /\ call.goal_fit.size \in 16..48
        /\ call.gap \in {10, 14, 20}
        /\ NameBottom - GoalTop = 40 * call.gap
        /\ GoalBottom >= 40 * 330
        /\ call.shift >= 0
        /\ call.name_center_y = 40 * 505 + (GoalHeight + 20 * call.gap) + call.shift
        /\ call.goal_center_y = 40 * 505 - (NameHeight + 20 * call.gap) + call.shift
        /\ call.name_baselines[1] = call.name_center_y + NameHeight - 40 * call.name.size
        /\ call.goal_baselines[1] = call.goal_center_y + GoalHeight - 40 * call.goal_fit.size

\* a two-line name at size 86 over a three-line goal at size 48: gap 10 and
\* both blocks shifted up to keep the goal at 330
C18_Witness ==
    /\ TipsDrawn
    /\ Len(call.name.lines) = 2 /\ call.name.size = 86
    /\ Len(call.goal_fit.lines) = 3 /\ call.goal_fit.size = 48
    /\ call.gap = 10
    /\ call.shift > 0
    /\ GoalBottom = 40 * 330

\* two lines beside a single line: gap 14, without shift
C18_OtherGapsReached ==
    /\ TipsDrawn
    /\ call.shift = 0
    /\ call.gap = 14

-----------------------------------------------------------------------------
(* C23: wrap_lines keeps the text *)

RECURSIVE WithoutSpaces(_)
WithoutSpaces(s) ==
    IF s = <<>> THEN <<>>
    ELSE IF Head(s) \in Whitespace THEN WithoutSpaces(Tail(s))
    ELSE <<Head(s)>> \o WithoutSpaces(Tail(s))

RECURSIVE ConcatLines(_)
ConcatLines(lines) == IF lines = <<>> THEN <<>> ELSE Head(lines) \o ConcatLines(Tail(lines))

\* " ".join(lines)
RECURSIVE JoinLines(_)
JoinLines(lines) ==
    IF lines = <<>> THEN <<>>
    ELSE IF Len(lines) = 1 THEN Head(lines)
    ELSE Head(lines) \o <<" ">> \o JoinLines(Tail(lines))

\* C23: whenever wrap_lines succeeds, the returned lines concatenated, spaces
\* deleted, are the input text with all whitespace deleted; and when
\* allow_word_break is false, the lines joined with single spaces are exactly
\* the whitespace-collapsed input, so that every line is made of whole
\* consecutive words.
C23_WrapKeepsText ==
    (call.op = "wrap_lines" /\ call.result.tag = "lines") =>
        /\ WithoutSpaces(ConcatLines(call.result.lines)) = WithoutSpaces(text)
        /\ ~call.allow_word_break => JoinLines(call.result.lines) = NormalizeSpaces(text)
        /\ ~call.allow_word_break =>
              \A k \in 1..Len(call.result.lines) :
                 \A j \in 1..Len(Split(call.result.lines[k])) :
                    \E i \in 1..Len(Split(NormalizeSpaces(text))) :
                       Split(call.result.lines[k])[j] = Split(NormalizeSpaces(text))[i]

\* two words wrapped whole onto two lines
C23_Witness ==
    /\ call.op = "wrap_lines"
    /\ ~call.allow_word_break
    /\ call.result.tag = "lines"
    /\ Len(call.result.lines) = 2
    /\ Len(Split(NormalizeSpaces(text))) = 2

\* a word cut in two by break_long_word, both pieces kept
C23_BrokenWordKept ==
    /\ call.op = "wrap_lines"
    /\ call.allow_word_break
    /\ call.result.tag = "lines"
    /\ Len(call.result.lines) = 2
    /\ Len(Split(NormalizeSpaces(text))) = 1

\* a word wider than max_width makes the whole-word wrap fail
C23_WideWordFails ==
    /\ call.op = "wrap_lines"
    /\ ~call.allow_word_break
    /\ \E i \in 1..Len(Split(NormalizeSpaces(text))) :
          text_width(call.size, Split(NormalizeSpaces(text))[i]) > call.max_width
    /\ call.result.tag = "None"

\* a word wider than max_width never comes with a successful whole-word wrap
C23_WideWordNeverWrapped ==
    (/\ call.op = "wrap_lines"
     /\ ~call.allow_word_break
     /\ \E i \in 1..Len(Split(NormalizeSpaces(text))) :
           text_width(call.size, Split(NormalizeSpaces(text))[i]) > call.max_width)
    => call.result.tag = "None"

-----------------------------------------------------------------------------
(* C21: the tips card is built from what the user entered *)

\* the step in which tips_link builds and sends a card
BuildsTipsCard == Handles /\ event'.kind = "tips_link" /\ event'.outcome = "sent"

\* C21: a tips card is built only when, since the conversation state was last
\* cleared, a valid name and a valid goal were stored, and it is built from
\* exactly these two values and the link of the message being handled.
C21_BuiltFromEntered ==
    [][BuildsTipsCard =>
         /\ "tips_name" \in DOMAIN data
         /\ "tips_goal" \in DOMAIN data
         /\ event'.archive[1].pdf.args
               = <<data["tips_name"], data["tips_goal"], Strip(event'.msg.text)>>]_vars

\* what holds instead: the card is built from the stored name and goal, or
\* from the default of each that is not stored, and the link just sent
C21_BuiltFromStoredOrDefault ==
    [][BuildsTipsCard =>
         event'.archive[1].pdf.args
            = <<Get(data, "tips_name", DefaultName), Get(data, "tips_goal", DefaultGoal),
                Strip(event'.msg.text)>>]_vars

\* a card built after name and goal were entered in order
C21_EnteredReached ==
    /\ event.kind = "tips_link"
    /\ event.outcome = "sent"
    /\ event.archive[1].pdf.args[1] # DefaultName
    /\ event.archive[1].pdf.args[2] # DefaultGoal

-----------------------------------------------------------------------------
(* access.py: AccessManager and its file.  The file is absent, holds text
   that is no JSON object, an object without "allowed_ids", or an object
   whose "allowed_ids" is a list of values. *)

MaxUserId == 3
MaxFileIds == 2

UserIds == 1..MaxUserId
AdminIds == {1}

\* int(x) of a JSON value: an int, a float (truncated), a string of digits
IntConvertible(x) ==
    \/ x.t \in {"int", "float"}
    \/ x.t = "str" /\ x.s # <<>> /\ AllIn(x.s, Digits)

PyInt(x) ==
    CASE x.t = "int" -> x.v
      [] x.t = "float" -> x.v \div 10
      [] OTHER -> DigitsValue(x.s)

\* sorted(self.allowed_ids)
RECURSIVE SortedIds(_)
SortedIds(ids) ==
    IF ids = {} THEN <<>>
    ELSE LET least == CHOOSE m \in ids : \A x \in ids : m <= x
         IN <<IntCell(least)>> \o SortedIds(ids \ {least})

\* _save: the file written from the set
SaveFile(ids) == [exists |-> TRUE, json |-> "list", ids |-> SortedIds(ids)]

\* _load: the set read, and the file as _load leaves it
LoadFile(file) ==
    IF ~file.exists
    THEN [allowed_ids |-> {}, file |-> SaveFile({})]
    ELSE IF file.json = "invalid" \/ \E i \in DOMAIN file.ids : ~IntConvertible(file.ids[i])
    THEN [allowed_ids |-> {}, file |-> SaveFile({})]
    ELSE [allowed_ids |-> {PyInt(file.ids[i]) : i \in DOMAIN file.ids}, file |-> file]

\* AccessManager.is_allowed
IsAllowedId(allowed_ids, user_id) == user_id \in AdminIds \/ user_id \in allowed_ids

\* add_user that changes the set and forgets the file
AddUserUnsaved(a, user_id) ==
    IF user_id \notin AdminIds
    THEN [a EXCEPT !.allowed_ids = a.allowed_ids \cup {user_id}]
    ELSE a

\* AccessManager.add_user
AddUserTo(a, user_id) ==
    IF user_id \notin AdminIds
    THEN [a EXCEPT !.allowed_ids = a.allowed_ids \cup {user_id},
                   !.file = SaveFile(a.allowed_ids \cup {user_id})]
    ELSE a

\* AccessManager.del_user
DelUserFrom(a, user_id) ==
    IF user_id \in a.allowed_ids
    THEN [a EXCEPT !.allowed_ids = a.allowed_ids \ {user_id},
                   !.file = SaveFile(a.allowed_ids \ {user_id})]
    ELSE a

\* values found in a file that the bot did not write itself
FileValues ==
    {IntCell(id) : id \in UserIds}
    \cup {StrCell(<<"2">>), StrCell(<<"x">>), FloatCell(25), NoneCell}

InitialFiles ==
    {NoFile, [exists |-> TRUE, json |-> "invalid", ids |-> <<>>],
     [exists |-> TRUE, json |-> "no_key", ids |-> <<>>]}
    \cup {[exists |-> TRUE, json |-> "list", ids |-> ids] : ids \in SeqsUpTo(FileValues, MaxFileIds)}

AccessCall(op, user_id) == [op |-> op, user_id |-> user_id]

\* AccessManager(file_path, admin_ids)
Construct ==
    /\ ~access.loaded
    /\ LET r == LoadFile(access.file)
       IN access' = [file |-> r.file, loaded |-> TRUE, allowed_ids |-> r.allowed_ids]
    /\ call' = AccessCall("AccessManager", 0)
    /\ UNCHANGED <<text, face, pc, files, token, fonts, allowed, fsm, event, refused, data>>

AddUser ==
    /\ access.loaded
    /\ \E user_id \in UserIds :
         /\ access' = AddUserTo(access, user_id)
         /\ call' = AccessCall("add_user", user_id)
    /\ UNCHANGED <<text, face, pc, files, token, fonts, allowed, fsm, event, refused, data>>

DelUser ==
    /\ access.loaded
    /\ \E user_id \in UserIds :
         /\ access' = DelUserFrom(access, user_id)
         /\ call' = AccessCall("del_user", user_id)
    /\ UNCHANGED <<text, face, pc, files, token, fonts, allowed, fsm, event, refused, data>>

\* the process ends; the file stays
Restart ==
    /\ access.loaded
    /\ access' = [access EXCEPT !.loaded = FALSE, !.allowed_ids = {}]
    /\ call' = NoCall
    /\ UNCHANGED <<text, face, pc, files, token, fonts, allowed, fsm, event, refused, data>>

InitAccess ==
    /\ text = <<>>
    /\ call = NoCall
    /\ face = ModelFace
    /\ pc = "off"
    /\ files = {}
    /\ token = FALSE
    /\ fonts = <<>>
    /\ allowed = FALSE
    /\ fsm = "None"
    /\ event = NoEvent
    /\ refused = FALSE
    /\ data = NoData
    /\ access \in {[file |-> f, loaded |-> FALSE, allowed_ids |-> {}] : f \in InitialFiles}

NextAccess == Construct \/ AddUser \/ DelUser \/ Restart

SpecAccess == InitAccess /\ [][NextAccess]_vars

-----------------------------------------------------------------------------
(* C22: the access file follows the allowed set *)

Changes(op) == call'.op = op /\ access.loaded

\* C22: after every add_user or del_user of a loaded AccessManager, a new
\* AccessManager built on the file reads the set held in memory and so answers
\* is_allowed alike for every user id, and a file written in the step is the
\* sorted list of that set; add_user of an admin id and del_user of an id that
\* is not in the set change neither the set nor the file; an admin is allowed
\* throughout.
C22_FileFollowsSet ==
    [][(Changes("add_user") \/ Changes("del_user")) =>
         /\ access'.loaded
         /\ LoadFile(access'.file).allowed_ids = access'.allowed_ids
         /\ \A id \in UserIds :
               IsAllowedId(LoadFile(access'.file).allowed_ids, id)
                  = IsAllowedId(access'.allowed_ids, id)
         /\ access'.file # access.file => access'.file = SaveFile(access'.allowed_ids)
         /\ (Changes("add_user") /\ call'.user_id \in AdminIds) => access' = access
         /\ (Changes("del_user") /\ call'.user_id \notin access.allowed_ids)
               => access' = access
         /\ \A id \in AdminIds : IsAllowedId(access'.allowed_ids, id)]_vars

\* user 3 was added to the set {2}; the file now holds [2, 3]
C22_Witness ==
    /\ call = AccessCall("add_user", 3)
    /\ access.loaded
    /\ access.allowed_ids = {2, 3}
    /\ access.file = SaveFile({2, 3})

\* an admin id read from the file is in the set, and del_user takes it out
C22_AdminIdInFile ==
    /\ access.loaded
    /\ 1 \in access.allowed_ids

=============================================================================
